---------------------------- MODULE Spec2Model ----------------------------
(***************************************************************************)
(* Command interpretation and braille transliteration of the accessible    *)
(* movie catalogue.                                                        *)
(*                                                                         *)
(* Texts the code inspects character by character (utterances, keywords,   *)
(* extracted terms, braille input) are sequences of one-character strings; *)
(* texts the code only copies (titles, canned sentences) are strings.      *)
(* An optional or nullable value is <<>> when absent and <<v>> otherwise.  *)
(* Confidences are in hundredths (0.8 is 80), ratings in hundredths.       *)
(***************************************************************************)
EXTENDS Integers, Sequences, FiniteSets, TLC

VARIABLES movies,      \* movies table: id -> <<>> (no row) or <<row>>
          req,         \* request of the last processVoiceCommand call
          norm,        \* its normalized command
          commandIntent, \* its classified intent
          lookups,     \* ids it queried in the movies table, in order
          res,         \* its outcome: a response or a raised error
          brText,      \* BrailleCodec: inputText of the last conversion
          brGrade,     \*   its grade
          brCells,     \*   cellsPerLine in force
          brOut,       \*   the returned string
          brEnabled,   \* BrailleDisplay: the brailleEnabled switch
          ai,          \* assistant endpoints: the call in progress, with
                       \*   its request and its outcome
          calls,       \* processVoiceCommand calls in progress: slot -> locals
          movieRows,   \* movies table, as popular sees it: the vidsrc_id of
                       \*   each row, in insertion order
          popularCalls, \* popular calls in progress: slot -> locals
          userFavorites, \* user_favorites table: its rows, in insertion order
          favCall,     \* the last favorites call and its outcome
          vn           \* VoiceNavigation component: its state, the voice
                       \*   commands in flight and the onCommand invocations

vars == <<movies, req, norm, commandIntent, lookups, res, brText, brGrade, brCells, brOut,
          brEnabled, ai, calls, movieRows, popularCalls, userFavorites, favCall, vn>>
restVars == <<calls, movieRows, popularCalls, userFavorites, favCall, vn>>
voiceVars == <<movies, req, norm, commandIntent, lookups, res>>
brailleVars == <<brText, brGrade, brCells, brOut, brEnabled>>

(***************************************************************************)
(* Bounds                                                                  *)
(***************************************************************************)
MaxPhrases == 2      \* phrases per utterance
MaxLen == 3          \* characters of a braille input text
MaxCells == 2        \* cellsPerLine ranges over 1..MaxCells

(***************************************************************************)
(* JavaScript string primitives                                            *)
(***************************************************************************)
UpperChars == <<"A","B","C","D","E","F","G","H","I","J","K","L","M",
                "N","O","P","Q","R","S","T","U","V","W","X","Y","Z">>
LowerChars == <<"a","b","c","d","e","f","g","h","i","j","k","l","m",
                "n","o","p","q","r","s","t","u","v","w","x","y","z">>

\* String.prototype.toLowerCase on one UTF-16 unit.  U+0130 (capital I with
\* dot above) lower-cases to the two units "i", U+0307.
LowerOf == [c \in {UpperChars[i] : i \in 1..26} |->
              LowerChars[CHOOSE i \in 1..26 : UpperChars[i] = c]]

LowerUnits(c) ==
  IF c \in DOMAIN LowerOf THEN <<LowerOf[c]>>
  ELSE IF c = "U+0130" THEN <<"i", "U+0307">> ELSE <<c>>

RECURSIVE ToLowerCase(_)
ToLowerCase(s) ==
  IF s = <<>> THEN <<>> ELSE LowerUnits(Head(s)) \o ToLowerCase(Tail(s))

WhiteSpace == {" ", "\t", "\n"}

RECURSIVE TrimStart(_)
TrimStart(s) ==
  IF s # <<>> /\ Head(s) \in WhiteSpace THEN TrimStart(Tail(s)) ELSE s

RECURSIVE TrimEnd(_)
TrimEnd(s) ==
  IF s # <<>> /\ s[Len(s)] \in WhiteSpace
    THEN TrimEnd(SubSeq(s, 1, Len(s) - 1)) ELSE s

Trim(s) == TrimEnd(TrimStart(s))

\* k occurs in s at position i
StartsAt(s, i, k) ==
  /\ i + Len(k) - 1 <= Len(s)
  /\ SubSeq(s, i, i + Len(k) - 1) = k

\* String.prototype.includes
Includes(s, k) == \E i \in 1..(Len(s) - Len(k) + 1) : StartsAt(s, i, k)

\* k occurs in s at position i, ignoring case (regular expression flag i)
StartsAtI(s, i, k) ==
  /\ i + Len(k) - 1 <= Len(s)
  /\ \A j \in 1..Len(k) : LowerUnits(s[i + j - 1]) = LowerUnits(k[j])

\* command.match(/<prefix>(.+)/i): <<>> when there is no match, else
\* <<match[1]>>.  The match is the leftmost one; "." takes no line break and
\* "+" is greedy, so match[1] runs to the end of the line.
MatchRest(command, prefix) ==
  LET n == Len(command)
      p == Len(prefix)
      Hit(i) == StartsAtI(command, i, prefix) /\ i + p <= n
                  /\ command[i + p] # "\n"
      hits == {i \in 1..n : Hit(i)}
  IN  IF hits = {} THEN <<>>
      ELSE LET i == CHOOSE h \in hits : \A g \in hits : h <= g
               from == i + p
               stops == {j \in from..n : command[j] = "\n"}
               to == IF stops = {} THEN n
                     ELSE (CHOOSE j \in stops : \A g \in stops : j <= g) - 1
           IN  <<SubSeq(command, from, to)>>

RECURSIVE FirstMatch(_, _, _)
\* tries the patterns in order and returns the trimmed capture of the first
\* that matches, <<>> when none does
FirstMatch(command, patterns, i) ==
  IF i > Len(patterns) THEN <<>>
  ELSE LET m == MatchRest(command, patterns[i])
       IN  IF m # <<>> THEN <<Trim(m[1])>>
           ELSE FirstMatch(command, patterns, i + 1)

(***************************************************************************)
(* IntentClassifier and EntityExtractor                                    *)
(***************************************************************************)
intents == <<
  [intent |-> "search",
   keywords |-> <<<<"f","i","n","d">>, <<"s","e","a","r","c","h">>, <<"l","o","o","k"," ","f","o","r">>, <<"s","h","o","w"," ","m","e">>, <<"g","e","t">>, <<"d","i","s","c","o","v","e","r">>>>],
  [intent |-> "play",
   keywords |-> <<<<"p","l","a","y">>, <<"s","t","a","r","t">>, <<"w","a","t","c","h">>, <<"b","e","g","i","n">>, <<"s","t","r","e","a","m">>>>],
  [intent |-> "pause",
   keywords |-> <<<<"p","a","u","s","e">>, <<"s","t","o","p">>, <<"h","a","l","t">>, <<"f","r","e","e","z","e">>>>],
  [intent |-> "navigate",
   keywords |-> <<<<"g","o"," ","t","o">>, <<"o","p","e","n">>, <<"n","a","v","i","g","a","t","e">>, <<"t","a","k","e"," ","m","e"," ","t","o">>, <<"s","w","i","t","c","h"," ","t","o">>>>],
  [intent |-> "help",
   keywords |-> <<<<"h","e","l","p">>, <<"a","s","s","i","s","t">>, <<"g","u","i","d","e">>, <<"w","h","a","t"," ","c","a","n">>, <<"h","o","w"," ","d","o">>>>],
  [intent |-> "describe",
   keywords |-> <<<<"d","e","s","c","r","i","b","e">>, <<"t","e","l","l"," ","m","e"," ","a","b","o","u","t">>, <<"e","x","p","l","a","i","n">>, <<"w","h","a","t"," ","i","s">>>>],
  [intent |-> "filter",
   keywords |-> <<<<"f","i","l","t","e","r">>, <<"s","h","o","w"," ","o","n","l","y">>, <<"w","i","t","h">>, <<"t","h","a","t"," ","h","a","v","e">>>>],
  [intent |-> "recommend",
   keywords |-> <<<<"r","e","c","o","m","m","e","n","d">>, <<"s","u","g","g","e","s","t">>, <<"w","h","a","t"," ","s","h","o","u","l","d">>, <<"f","i","n","d"," ","m","e"," ","s","o","m","e","t","h","i","n","g">>>>] >>

IntentHit_FirstKeywordOnly(command, i) ==
  Includes(command, intents[i].keywords[1])

\* some keyword of the i-th intent occurs in the command
IntentHit(command, i) ==
  \E k \in 1..Len(intents[i].keywords) : Includes(command, intents[i].keywords[k])

ScanIntents_LastHit(command, i) ==
  LET hits == {j \in i..Len(intents) : IntentHit(command, j)}
  IN  IF hits = {} THEN "unknown"
      ELSE intents[CHOOSE j \in hits : \A h \in hits : h <= j].intent

RECURSIVE ScanIntents(_, _)
\* the loop over Object.entries(intents), stopping at the first hit
ScanIntents(command, i) ==
  IF i > Len(intents) THEN "unknown"
  ELSE IF IntentHit(command, i) THEN intents[i].intent
  ELSE ScanIntents(command, i + 1)

DetectIntent_AlwaysConfident(command) ==
  [intent |-> ScanIntents(command, 1), confidence |-> 80]

\* detectedIntent and confidence after the loop
DetectIntent(command) ==
  LET found == ScanIntents(command, 1)
  IN  [intent |-> found, confidence |-> IF found = "unknown" THEN 0 ELSE 80]

Collect_FirstOnly(command, vocabulary, i) ==
  LET hits == {j \in i..Len(vocabulary) :
                 \E p \in vocabulary[j].phrases : Includes(command, p)}
  IN  IF hits = {} THEN <<>>
      ELSE <<vocabulary[CHOOSE j \in hits : \A h \in hits : j <= h].name>>

\* the members of a vocabulary (a sequence of [name, phrases]) of which some
\* phrase occurs in the command, in vocabulary order
RECURSIVE Collect(_, _, _)
Collect(command, vocabulary, i) ==
  IF i > Len(vocabulary) THEN <<>>
  ELSE (IF \E p \in vocabulary[i].phrases : Includes(command, p)
          THEN <<vocabulary[i].name>> ELSE <<>>)
       \o Collect(command, vocabulary, i + 1)

accessibilityVocabulary == <<
  [name |-> "audio_description", phrases |-> {<<"a","u","d","i","o"," ","d","e","s","c","r","i","p","t","i","o","n">>, <<"n","a","r","r","a","t","i","o","n">>}],
  [name |-> "closed_captions", phrases |-> {<<"c","a","p","t","i","o","n">>, <<"s","u","b","t","i","t","l","e">>}],
  [name |-> "sign_language", phrases |-> {<<"s","i","g","n"," ","l","a","n","g","u","a","g","e">>}] >>

genres == <<
  [name |-> "action", phrases |-> {<<"a","c","t","i","o","n">>}],
  [name |-> "comedy", phrases |-> {<<"c","o","m","e","d","y">>}],
  [name |-> "drama", phrases |-> {<<"d","r","a","m","a">>}],
  [name |-> "documentary", phrases |-> {<<"d","o","c","u","m","e","n","t","a","r","y">>}],
  [name |-> "horror", phrases |-> {<<"h","o","r","r","o","r">>}],
  [name |-> "romance", phrases |-> {<<"r","o","m","a","n","c","e">>}],
  [name |-> "thriller", phrases |-> {<<"t","h","r","i","l","l","e","r">>}],
  [name |-> "sci-fi", phrases |-> {<<"s","c","i","-","f","i">>}],
  [name |-> "fantasy", phrases |-> {<<"f","a","n","t","a","s","y">>}] >>

actions == <<
  [name |-> "volume", phrases |-> {<<"v","o","l","u","m","e">>}],
  [name |-> "speed", phrases |-> {<<"s","p","e","e","d">>}],
  [name |-> "quality", phrases |-> {<<"q","u","a","l","i","t","y">>}],
  [name |-> "fullscreen", phrases |-> {<<"f","u","l","l","s","c","r","e","e","n">>}],
  [name |-> "settings", phrases |-> {<<"s","e","t","t","i","n","g","s">>}] >>

extractEntities(command) ==
  [accessibilityFeatures |-> Collect(command, accessibilityVocabulary, 1),
   genres |-> Collect(command, genres, 1),
   movieTitles |-> <<>>,
   actions |-> Collect(command, actions, 1)]

analyzeCommandIntent(command, context) ==
  LET d == DetectIntent(command)
  IN  [intent |-> d.intent,
       confidence |-> d.confidence,
       entities |-> extractEntities(command),
       originalCommand |-> command,
       context |-> context]

(***************************************************************************)
(* Responses                                                               *)
(***************************************************************************)
Predicted(a, d, c) == [action |-> a, description |-> d, confidence |-> c]

\* a returned VoiceCommandResponse; keys the code leaves out are left out
Ok(fields) == [kind |-> "ok"] @@ fields

\* a thrown error: an APIError carries its code, any other exception
\* (a TypeError) reaches the caller as "internal"
Raise(code) == [kind |-> "error", code |-> code]

\* outcome of a handler together with the ids it queried
Outcome(response, queried) == [res |-> response, lookups |-> queried]

(***************************************************************************)
(* Search context                                                          *)
(***************************************************************************)
searchPatterns == <<<<"s","e","a","r","c","h"," ","f","o","r"," ">>, <<"f","i","n","d"," ">>, <<"l","o","o","k"," ","f","o","r"," ">>, <<"s","h","o","w"," ","m","e"," ">>, <<"g","e","t"," ">>, <<"d","i","s","c","o","v","e","r"," ">>>>

searchWords == <<<<"s","e","a","r","c","h">>, <<"f","i","n","d">>, <<"f","o","r">>, <<"l","o","o","k">>, <<"s","h","o","w">>, <<"m","e">>, <<"g","e","t">>, <<"d","i","s","c","o","v","e","r">>>>

RECURSIVE ReplaceAll(_, _, _)
\* command.replace(/w1|w2|.../gi, ''): scanning from position i, at each
\* position the first alternative that matches is removed
ReplaceAll(command, words, i) ==
  IF i > Len(command) THEN <<>>
  ELSE LET hit == {w \in 1..Len(words) : StartsAtI(command, i, words[w])}
       IN  IF hit = {} THEN <<command[i]>> \o ReplaceAll(command, words, i + 1)
           ELSE LET w == CHOOSE h \in hit : \A g \in hit : h <= g
                IN  ReplaceAll(command, words, i + Len(words[w]))

\* the term when the fallback keeps the command words
extractSearchTerm_KeepsWords(command) ==
  LET m == FirstMatch(command, searchPatterns, 1)
  IN  IF m # <<>> THEN m[1] ELSE Trim(command)

extractSearchTerm(command) ==
  LET m == FirstMatch(command, searchPatterns, 1)
  IN  IF m # <<>> THEN m[1] ELSE Trim(ReplaceAll(command, searchWords, 1))

filterPatterns == <<<<"f","i","l","t","e","r"," ","b","y"," ">>, <<"s","h","o","w"," ","o","n","l","y"," ">>, <<"o","n","l","y"," ">>, <<"w","i","t","h"," ">>, <<"t","h","a","t"," ","h","a","v","e"," ">>>>

extractFilter(command) ==
  LET m == FirstMatch(command, filterPatterns, 1)
  IN  IF m # <<>> THEN m[1] ELSE <<"u","n","k","n","o","w","n">>

searchData(searchTerm, entities) ==
  LET filters == entities.accessibilityFeatures
      genre == entities.genres
  IN  IF Len(filters) > 0 /\ Len(genre) > 0
        THEN [query |-> searchTerm, accessibilityFilters |-> filters, genre |-> genre[1]]
      ELSE IF Len(filters) > 0
        THEN [query |-> searchTerm, accessibilityFilters |-> filters]
      ELSE IF Len(genre) > 0
        THEN [query |-> searchTerm, genre |-> genre[1]]
      ELSE [query |-> searchTerm]

searchUnknown ==
  Ok([action |-> "unknown",
      response |-> "I didn't understand that search command",
      speechText |-> "I didn't understand that search command. Try saying \"search for\" followed by a movie title, or \"recommend movies with audio descriptions\".",
      predictedNextActions |-> <<>>])

handleSearchCommands(command, intent, userId) ==
  IF intent.intent = "search" \/ intent.intent = "find" THEN
    LET searchTerm == extractSearchTerm(command)
    IN  Outcome(Ok([action |-> "search",
          response |-> <<"Searching for \"", searchTerm, "\" with accessibility features">>,
          data |-> searchData(searchTerm, intent.entities),
          speechText |-> <<"Searching for ", searchTerm, ". I'll prioritize content with accessibility features for you.">>,
          navigationInstructions |-> <<
            "Search results will be announced when ready",
            "Use arrow keys to navigate through results",
            "Press Enter to select a movie",
            "Say \"filter by\" to add more search criteria">>,
          predictedNextActions |-> <<
            Predicted("view_results", "Browse search results", 90),
            Predicted("refine_search", "Add more filters", 70),
            Predicted("play_first_result", "Play the top result", 60)>>]), <<>>)
  ELSE IF intent.intent = "filter" THEN
    LET filter == extractFilter(command)
    IN  Outcome(Ok([action |-> "filter",
          response |-> <<"Applying filter: ", filter>>,
          data |-> [filter |-> filter, accessibilityFocus |-> TRUE],
          speechText |-> <<"Filtering results by ", filter, ". I'll show you the most accessible options first.">>,
          predictedNextActions |-> <<
            Predicted("apply_filter", "Apply the specified filter", 95),
            Predicted("view_filtered_results", "Browse filtered results", 80)>>]), <<>>)
  ELSE IF intent.intent = "recommend" THEN
    Outcome(Ok([action |-> "recommend",
          response |-> "Getting personalized accessible movie recommendations",
          data |-> [userId |-> userId, accessibilityFocused |-> TRUE],
          speechText |-> "Let me find some great accessible movies for you based on your preferences.",
          predictedNextActions |-> <<
            Predicted("get_recommendations", "Get personalized recommendations", 90),
            Predicted("browse_categories", "Explore content categories", 70)>>]), <<>>)
  ELSE Outcome(searchUnknown, <<>>)

(***************************************************************************)
(* Player context                                                          *)
(***************************************************************************)
MissingId_Never(movieId) == FALSE

\* !movieId: undefined and 0 are both falsy
MissingId(movieId) == movieId = <<>> \/ movieId = <<0>>

queryRow_IgnoresId(db, movieId) ==
  LET held == {i \in DOMAIN db : db[i] # <<>>}
  IN  IF held = {} THEN <<>> ELSE db[CHOOSE i \in held : TRUE]

\* moviesDB.queryRow`SELECT ... FROM movies WHERE id = ${movieId}`: <<>> when
\* no row has the id (an undefined id compares to no row), else <<row>>
queryRow(db, movieId) ==
  IF movieId # <<>> /\ movieId[1] \in DOMAIN db THEN db[movieId[1]] ELSE <<>>

\* movie?.title || 'this movie'
movieTitleOf(movie) ==
  IF movie # <<>> /\ movie[1].title # "" THEN movie[1].title ELSE "this movie"

captionEnable_WordsOnly(command) ==
  Includes(command, <<"e","n","a","b","l","e">>) \/ Includes(command, <<"t","u","r","n"," ","o","n">>)

\* the enable flag of line 364
captionEnable(command) ==
  Includes(command, <<"e","n","a","b","l","e">>) \/ Includes(command, <<"o","n">>) \/ Includes(command, <<"t","u","r","n"," ","o","n">>)

playerUnknown_WithPredictions ==
  Ok([action |-> "unknown",
      response |-> "Player command not recognized",
      speechText |-> "Player command not recognized.",
      predictedNextActions |-> <<Predicted("play", "Start playback", 50)>>])

playerUnknown ==
  Ok([action |-> "unknown",
      response |-> "Player command not recognized",
      speechText |-> "Player command not recognized. Try \"play\", \"pause\", \"volume up\", \"volume down\", \"enable captions\", or \"describe scene\".",
      predictedNextActions |-> <<>>])

handlePlayerCommands(command, intent, movieId, db) ==
  IF MissingId(movieId) THEN Outcome(Raise("invalid_argument"), <<>>)
  ELSE
  LET movie == queryRow(db, movieId)
      movieTitle == movieTitleOf(movie)
      queried == <<movieId>>
  IN
  IF intent.intent = "play" THEN
    Outcome(Ok([action |-> "play",
      response |-> <<"Starting ", movieTitle, " with accessibility features">>,
      speechText |-> <<"Starting ", movieTitle, ". Audio descriptions and captions are enabled. Use voice commands to control playback.">>,
      navigationInstructions |-> <<
        "Say \"pause\" to pause the movie",
        "Say \"volume up\" or \"volume down\" to adjust audio",
        "Say \"enable captions\" to turn on closed captions",
        "Say \"describe scene\" for additional narration">>,
      predictedNextActions |-> <<
        Predicted("enable_accessibility", "Enable accessibility features", 90),
        Predicted("adjust_settings", "Adjust playback settings", 70),
        Predicted("pause", "Pause playback", 60)>>]), queried)
  ELSE IF intent.intent = "pause" THEN
    Outcome(Ok([action |-> "pause",
      response |-> <<"Pausing ", movieTitle>>,
      speechText |-> <<movieTitle, " paused. Say \"play\" to resume, or \"stop\" to exit.">>,
      predictedNextActions |-> <<
        Predicted("resume", "Resume playback", 80),
        Predicted("stop", "Stop and exit", 60),
        Predicted("adjust_settings", "Modify settings", 50)>>]), queried)
  ELSE IF Includes(command, <<"v","o","l","u","m","e">>) THEN
    LET volumeAction == IF Includes(command, <<"u","p">>) THEN "increase"
                        ELSE IF Includes(command, <<"d","o","w","n">>) THEN "decrease"
                        ELSE "set"
    IN  Outcome(Ok([action |-> "volume",
          response |-> <<"Adjusting volume ", volumeAction>>,
          data |-> [volumeAction |-> volumeAction],
          speechText |-> <<"Volume ", volumeAction, "d. Current volume level will be announced.">>,
          predictedNextActions |-> <<
            Predicted("continue_watching", "Continue with new volume", 80),
            Predicted("adjust_more", "Make further adjustments", 60)>>]), queried)
  ELSE IF Includes(command, <<"c","a","p","t","i","o","n">>) \/ Includes(command, <<"s","u","b","t","i","t","l","e">>) THEN
    LET enable == captionEnable(command)
    IN  Outcome(Ok([action |-> "captions",
          response |-> IF enable THEN "Enabling captions" ELSE "Disabling captions",
          data |-> [enable |-> enable],
          speechText |-> IF enable THEN "Closed captions enabled." ELSE "Closed captions disabled.",
          predictedNextActions |-> <<
            Predicted("continue_watching", "Continue with captions", 90),
            Predicted("adjust_caption_settings", "Customize caption appearance", 60)>>]), queried)
  ELSE IF Includes(command, <<"d","e","s","c","r","i","b","e">>) \/ Includes(command, <<"n","a","r","r","a","t","e">>) THEN
    Outcome(Ok([action |-> "describe",
      response |-> "Providing additional scene description",
      speechText |-> "Activating enhanced scene description. I'll provide more detailed narration of visual elements.",
      predictedNextActions |-> <<
        Predicted("continue_narration", "Continue with enhanced narration", 80),
        Predicted("adjust_narration_speed", "Change narration speed", 60)>>]), queried)
  ELSE Outcome(playerUnknown, queried)

(***************************************************************************)
(* Details context                                                         *)
(***************************************************************************)
\* JavaScript truthiness of a nullable BOOLEAN column: NULL and false are falsy
TruthyFlag(column) == column = <<TRUE>>

\* truthiness of a nullable TEXT column: NULL and '' are falsy
TruthyText(column) == column # <<>> /\ column # <<"">>

\* Number.prototype.toFixed(1) of a value in hundredths, in tenths
toFixed1(x) == (x + 5) \div 10

\* a nullable value inside a template literal
Interpolate(column) == IF column = <<>> THEN "null" ELSE column[1]

accessibilityFeatureList_Reordered(movie) ==
  (IF TruthyFlag(movie.closed_captions_available) THEN <<"closed captions">> ELSE <<>>)
  \o (IF TruthyFlag(movie.audio_description_available) THEN <<"audio description">> ELSE <<>>)
  \o (IF TruthyFlag(movie.sign_language_available) THEN <<"sign language interpretation">> ELSE <<>>)
  \o (IF TruthyText(movie.narrated_description) THEN <<"detailed AI narration">> ELSE <<>>)

\* the features array of lines 431-435
accessibilityFeatureList(movie) ==
  (IF TruthyFlag(movie.audio_description_available) THEN <<"audio description">> ELSE <<>>)
  \o (IF TruthyFlag(movie.closed_captions_available) THEN <<"closed captions">> ELSE <<>>)
  \o (IF TruthyFlag(movie.sign_language_available) THEN <<"sign language interpretation">> ELSE <<>>)
  \o (IF TruthyText(movie.narrated_description) THEN <<"detailed AI narration">> ELSE <<>>)

NoFeaturesText == "This movie does not have specific accessibility features listed, but I can generate audio descriptions for you."

detailsUnknown ==
  Ok([action |-> "unknown",
      response |-> "Details command not recognized",
      speechText |-> "Command not recognized. Try \"tell me about this movie\", \"accessibility features\", \"rating\", or \"find similar movies\".",
      predictedNextActions |-> <<>>])

handleDetailsCommands(command, intent, movieId, db) ==
  IF MissingId(movieId) THEN Outcome(Raise("invalid_argument"), <<>>)
  ELSE
  LET found == queryRow(db, movieId)
      queried == <<movieId>>
  IN
  IF found = <<>> THEN Outcome(Raise("not_found"), queried)
  ELSE
  LET movie == found[1] IN
  IF intent.intent = "describe" \/ Includes(command, <<"t","e","l","l"," ","m","e"," ","a","b","o","u","t">>) THEN
    Outcome(Ok([action |-> "read_description",
      response |-> "Reading movie description",
      data |-> [description |-> movie.overview],
      speechText |-> <<movie.title, ". ", Interpolate(movie.overview)>>,
      predictedNextActions |-> <<
        Predicted("play_movie", "Start watching the movie", 80),
        Predicted("add_to_favorites", "Add to favorites", 60),
        Predicted("find_similar", "Find similar movies", 70)>>]), queried)
  ELSE IF Includes(command, <<"a","c","c","e","s","s","i","b","i","l","i","t","y">>) \/ Includes(command, <<"f","e","a","t","u","r","e","s">>) THEN
    LET features == accessibilityFeatureList(movie)
        featuresText ==
          IF Len(features) > 0
            THEN <<"This movie has the following accessibility features: ", features, ".">>
            ELSE <<NoFeaturesText>>
    IN  Outcome(Ok([action |-> "accessibility_features",
          response |-> "Listing accessibility features",
          data |-> [features |-> features],
          speechText |-> featuresText,
          predictedNextActions |-> <<
            Predicted("enable_features", "Enable accessibility features", 90),
            Predicted("play_with_features", "Start watching with features enabled", 80)>>]), queried)
  ELSE IF Includes(command, <<"r","a","t","i","n","g">>) \/ Includes(command, <<"h","o","w"," ","g","o","o","d">>) THEN
    \* movie.vote_average.toFixed(1) throws a TypeError on NULL
    IF movie.vote_average = <<>> THEN Outcome(Raise("internal"), queried)
    ELSE
    Outcome(Ok([action |-> "rating",
      response |-> "Reading movie rating",
      data |-> [rating |-> movie.vote_average],
      speechText |-> <<"This movie has a rating of ", toFixed1(movie.vote_average[1]),
                       " out of 10, based on ", Interpolate(movie.vote_count), " votes.">>,
      predictedNextActions |-> <<
        Predicted("read_reviews", "Read user reviews", 70),
        Predicted("play_movie", "Start watching", 80),
        Predicted("find_similar_rated", "Find similarly rated movies", 60)>>]), queried)
  ELSE IF Includes(command, <<"s","i","m","i","l","a","r">>) \/ Includes(command, <<"l","i","k","e"," ","t","h","i","s">>) THEN
    Outcome(Ok([action |-> "find_similar",
      response |-> "Finding similar accessible movies",
      speechText |-> "Let me find similar movies with accessibility features for you.",
      predictedNextActions |-> <<
        Predicted("browse_similar", "Browse similar movies", 90),
        Predicted("add_to_watchlist", "Add similar movies to watchlist", 70)>>]), queried)
  ELSE Outcome(detailsUnknown, queried)

(***************************************************************************)
(* Navigation context                                                      *)
(***************************************************************************)
navigationUnknown_WithPredictions ==
  Ok([action |-> "unknown",
      response |-> "Navigation command not recognized",
      speechText |-> "Navigation command not recognized. Say \"help\" to hear available commands, or try \"go home\", \"search page\", \"favorites\", or \"settings\".",
      predictedNextActions |-> <<Predicted("get_help", "Learn about available commands", 70)>>])

navigationUnknown ==
  Ok([action |-> "unknown",
      response |-> "Navigation command not recognized",
      speechText |-> "Navigation command not recognized. Say \"help\" to hear available commands, or try \"go home\", \"search page\", \"favorites\", or \"settings\".",
      predictedNextActions |-> <<>>])

handleNavigationCommands(command, intent, userId) ==
  IF Includes(command, <<"g","o"," ","h","o","m","e">>) \/ Includes(command, <<"m","a","i","n"," ","p","a","g","e">>) THEN
    Outcome(Ok([action |-> "navigate_home",
      response |-> "Navigating to home page",
      speechText |-> "Navigating to home page. Popular accessible movies will be loaded with audio descriptions and captions prioritized.",
      navigationInstructions |-> <<
        "Home page contains popular movies with accessibility features",
        "Use Tab to navigate between movie cards",
        "Press Enter to view movie details",
        "Say \"recommend movies\" for personalized suggestions">>,
      predictedNextActions |-> <<
        Predicted("browse_popular", "Browse popular accessible movies", 80),
        Predicted("get_recommendations", "Get personalized recommendations", 70),
        Predicted("search_content", "Search for specific content", 60)>>]), <<>>)
  ELSE IF Includes(command, <<"s","e","a","r","c","h"," ","p","a","g","e">>) \/ Includes(command, <<"f","i","n","d"," ","m","o","v","i","e","s">>) THEN
    Outcome(Ok([action |-> "navigate_search",
      response |-> "Navigating to search page",
      speechText |-> "Navigating to search page. You can search for movies by title, genre, or accessibility features using voice commands.",
      navigationInstructions |-> <<
        "Search input field is focused and ready",
        "Type your search query or use voice commands",
        "Say \"filter by audio descriptions\" for accessible content",
        "Results will be announced when available">>,
      predictedNextActions |-> <<
        Predicted("start_search", "Begin searching for content", 90),
        Predicted("use_voice_search", "Use voice search", 80),
        Predicted("apply_accessibility_filters", "Filter by accessibility features", 70)>>]), <<>>)
  ELSE IF Includes(command, <<"f","a","v","o","r","i","t","e","s">>) \/ Includes(command, <<"m","y"," ","m","o","v","i","e","s">>) THEN
    Outcome(Ok([action |-> "navigate_favorites",
      response |-> "Navigating to favorites",
      speechText |-> "Navigating to your favorite movies. Your saved accessible movies will be displayed with their accessibility features highlighted.",
      predictedNextActions |-> <<
        Predicted("browse_favorites", "Browse favorite movies", 90),
        Predicted("play_favorite", "Play a favorite movie", 70),
        Predicted("organize_favorites", "Organize favorites list", 50)>>]), <<>>)
  ELSE IF Includes(command, <<"s","e","t","t","i","n","g","s">>) \/ Includes(command, <<"a","c","c","e","s","s","i","b","i","l","i","t","y"," ","o","p","t","i","o","n","s">>) THEN
    Outcome(Ok([action |-> "navigate_settings",
      response |-> "Navigating to accessibility settings",
      speechText |-> "Navigating to accessibility settings. You can customize your viewing preferences, voice commands, and accessibility features here.",
      navigationInstructions |-> <<
        "Accessibility settings allow you to customize your experience",
        "Use Tab to navigate between options",
        "Changes are saved automatically",
        "Say \"test speech\" to verify voice settings">>,
      predictedNextActions |-> <<
        Predicted("adjust_accessibility", "Modify accessibility settings", 90),
        Predicted("configure_voice", "Set up voice commands", 80),
        Predicted("test_features", "Test accessibility features", 70)>>]), <<>>)
  ELSE IF intent.intent = "help" \/ Includes(command, <<"w","h","a","t"," ","c","a","n"," ","I"," ","s","a","y">>) THEN
    Outcome(Ok([action |-> "help",
      response |-> "Showing voice command help",
      speechText |-> "Available voice commands: \"search for\" followed by a movie title, \"go home\", \"search page\", \"favorites\", \"settings\", \"play\", \"pause\", \"volume up\", \"volume down\", \"enable captions\", \"tell me about this movie\", \"accessibility features\", \"rating\", and \"find similar movies\". I can also provide personalized recommendations and help you navigate with full accessibility support.",
      navigationInstructions |-> <<
        "Voice commands work throughout the application",
        "Speak clearly and wait for confirmation",
        "Say \"help\" anytime to hear available commands",
        "I can provide proactive assistance based on your needs">>,
      predictedNextActions |-> <<
        Predicted("try_voice_command", "Try a voice command", 80),
        Predicted("explore_features", "Explore accessibility features", 70),
        Predicted("get_tutorial", "Start accessibility tutorial", 60)>>]), <<>>)
  ELSE Outcome(navigationUnknown, <<>>)

(***************************************************************************)
(* processVoiceCommand                                                     *)
(***************************************************************************)
\* const { command, context = 'navigation', movieId, userId } = req
contextOf(r) == IF r.context = <<>> THEN "navigation" ELSE r.context[1]

\* command.toLowerCase().trim()
normalizedCommandOf(command) == Trim(ToLowerCase(command))

dispatch_SearchByIntent(context, command, intent, r, db) ==
  IF intent.intent \in {"search", "filter", "recommend"}
    THEN handleSearchCommands(command, intent, r.userId)
  ELSE IF context = "player" THEN handlePlayerCommands(command, intent, r.movieId, db)
  ELSE IF context = "details" THEN handleDetailsCommands(command, intent, r.movieId, db)
  ELSE handleNavigationCommands(command, intent, r.userId)

\* the switch on context; any value but search, player, details falls to
\* the navigation handler
dispatch(context, command, intent, r, db) ==
  CASE context = "search"  -> handleSearchCommands(command, intent, r.userId)
    [] context = "player"  -> handlePlayerCommands(command, intent, r.movieId, db)
    [] context = "details" -> handleDetailsCommands(command, intent, r.movieId, db)
    [] OTHER               -> handleNavigationCommands(command, intent, r.userId)

(***************************************************************************)
(* The movies table and the requests explored                              *)
(***************************************************************************)
\* columns of a movies row that the handlers read (1_create_tables.up.sql):
\* title is NOT NULL, every other column is nullable
Row(title, overview, narrated, average, count, ad, cc, sl) ==
  [title |-> title, overview |-> overview, narrated_description |-> narrated,
   vote_average |-> average, vote_count |-> count,
   audio_description_available |-> ad, closed_captions_available |-> cc,
   sign_language_available |-> sl]

\* rows explored by Spec: a fully described one, one with audio description
\* only, and one with every nullable column NULL
SampleRows ==
  { Row("Free Solo", <<"A climber.">>, <<"Narrated.">>, <<725>>, <<100>>,
        <<TRUE>>, <<TRUE>>, <<TRUE>>),
    Row("Seeing Voices", <<"">>, <<"">>, <<0>>, <<100>>,
        <<TRUE>>, <<FALSE>>, <<FALSE>>),
    Row("", <<>>, <<>>, <<>>, <<>>, <<>>, <<>>, <<>>) }

\* rows explored by SpecDetails: every combination of the four
\* accessibility columns
FlagRows ==
  { Row("Free Solo", <<"A climber.">>, narrated, <<725>>, <<100>>, ad, cc, sl) :
      narrated \in {<<>>, <<"">>, <<"Narrated.">>},
      ad \in {<<>>, <<FALSE>>, <<TRUE>>},
      cc \in {<<FALSE>>, <<TRUE>>},
      sl \in {<<FALSE>>, <<TRUE>>} }

\* the id that may hold a row
Ids == {1}

\* movieId of a request: omitted, 0, the id that may hold a row, and an id
\* that never holds one
RequestIds == {<<>>, <<0>>, <<1>>, <<2>>}

\* context of a request: omitted or one of the four
RequestContexts == {<<>>, <<"search">>, <<"player">>, <<"details">>, <<"navigation">>}

\* phrases the utterances of each context are built from; the empty phrase
\* gives leading, trailing and doubled spaces
PhrasesFor(context) ==
  CASE context = <<"search">> ->
         { <<>>, <<"s","e","a","r","c","h"," ","f","o","r">>, <<"F","r","e","e"," ","S","o","l","o">>, <<"s","e","a","r","c","h">>, <<"f","i","n","d"," ","m","e"," ","s","o","m","e","t","h","i","n","g">>,
           <<"f","i","l","t","e","r"," ","b","y">>, <<"w","i","t","h"," ","c","a","p","t","i","o","n","s">>, <<"r","e","c","o","m","m","e","n","d">>, <<"c","o","m","e","d","y">>, <<"x","y","z","z","y">> }
    [] context = <<"player">> ->
         { <<>>, <<"p","l","a","y">>, <<"s","t","o","p">>, <<"v","o","l","u","m","e">>, <<"e","n","a","b","l","e">>, <<"d","i","s","a","b","l","e">>,
           <<"c","a","p","t","i","o","n","s">>, <<"s","u","b","t","i","t","l","e","s"," ","o","f","f">>, <<"d","e","s","c","r","i","b","e">>, <<"x","y","z","z","y">>,
           <<"s","t","a","r","t">>, <<"w","a","t","c","h","i","n","g">>, <<"f","i","n","d">> }
    [] context = <<"details">> ->
         { <<>>, <<"t","e","l","l"," ","m","e"," ","a","b","o","u","t">>, <<"d","e","s","c","r","i","b","e">>, <<"a","c","c","e","s","s","i","b","i","l","i","t","y">>, <<"f","e","a","t","u","r","e","s">>,
           <<"r","a","t","i","n","g">>, <<"h","o","w"," ","g","o","o","d">>, <<"s","i","m","i","l","a","r">>, <<"p","l","a","y">>, <<"x","y","z","z","y">>,
           <<"w","h","a","t"," ","i","s"," ","t","h","e">> }
    [] context = <<"navigation">> ->
         { <<>>, <<"g","o"," ","h","o","m","e">>, <<"m","a","i","n"," ","p","a","g","e">>, <<"s","e","a","r","c","h"," ","p","a","g","e">>, <<"f","i","n","d"," ","m","o","v","i","e","s">>,
           <<"f","a","v","o","r","i","t","e","s">>, <<"s","e","t","t","i","n","g","s">>, <<"h","e","l","p">>, <<"w","h","a","t"," ","c","a","n"," ","I"," ","s","a","y">>, <<"x","y","z","z","y">>,
           <<"s","h","o","w"," ","m","e">> }
    [] OTHER ->
         { <<>>, <<"g","o"," ","h","o","m","e">>, <<"h","e","l","p">>, <<"x","y","z","z","y">> }

DetailsPhrases ==
  { <<>>, <<"a","c","c","e","s","s","i","b","i","l","i","t","y">>, <<"f","e","a","t","u","r","e","s">>, <<"r","a","t","i","n","g">>, <<"d","e","s","c","r","i","b","e">>, <<"x","y","z","z","y">> }

\* phrases for the classifier: the empty phrase, a trigger of each intent
\* in table order, a word that triggers none, and phrases naming two
\* entities of one vocabulary against the vocabulary's order
IntentPhrases ==
  { <<>>, <<"f","i","n","d"," ","m","e"," ","s","o","m","e","t","h","i","n","g">>, <<"p","l","a","y">>, <<"s","t","o","p">>, <<"g","o"," ","t","o">>, <<"h","e","l","p">>,
    <<"d","e","s","c","r","i","b","e">>, <<"w","i","t","h">>, <<"r","e","c","o","m","m","e","n","d">>, <<"x","y","z","z","y">>,
    <<"s","i","g","n"," ","l","a","n","g","u","a","g","e"," ","n","a","r","r","a","t","i","o","n">>, <<"s","u","b","t","i","t","l","e"," ","c","a","p","t","i","o","n">>, <<"d","r","a","m","a"," ","c","o","m","e","d","y">>,
    <<"s","e","t","t","i","n","g","s"," ","v","o","l","u","m","e">> }

\* contexts whose handler takes no movieId: search, and navigation, which
\* an omitted context selects
OpenContexts == {<<>>, <<"search">>}

RECURSIVE Sentences(_, _)
\* the texts made of exactly n of the phrases, separated by one space
Sentences(phrases, n) ==
  IF n = 1 THEN phrases
  ELSE {s \o <<" ">> \o p : s \in Sentences(phrases, n - 1), p \in phrases}

\* the utterances of at most MaxPhrases phrases
UtterancesOf(phrases) ==
  UNION {Sentences(phrases, n) : n \in 1..MaxPhrases}

RowOptions(rows) == {<<>>} \cup {<<r>> : r \in rows}

Stores(rows) == [Ids -> RowOptions(rows)]

(***************************************************************************)
(* State machine                                                           *)
(***************************************************************************)
NoRequest == [command |-> <<>>, context |-> <<>>, movieId |-> <<>>, userId |-> <<>>]
NoIntent == [intent |-> "none"]
NoResponse == [kind |-> "none"]

Idle == res = NoResponse

BrailleIdle ==
  /\ brText = <<>>
  /\ brGrade = "1"
  /\ brCells = 1
  /\ brOut = <<"not converted">>
  /\ brEnabled = FALSE

\* no assistant endpoint is running
NoCall == [endpoint |-> "none"]

AIIdle == ai = NoCall

\* the two calls that can be in progress at once
Slots == {1, 2}

\* a slot with no call in it
NoLocals == [pc |-> "idle"]

NoFavoriteCall == [op |-> "none"]

\* the component after its first render: the useState defaults (lines
\* 16-20; lastResponse '' is the text of no call), no command in flight,
\* no call settled, onCommand not invoked, and whether the parent passed
\* an onCommand prop
MountedWith(onCommand) ==
  [isListening |-> FALSE, isProcessing |-> FALSE, lastResponse |-> [of |-> "none"],
   inFlight |-> <<>>, settled |-> <<>>, invoked |-> <<>>, onCommand |-> onCommand]

Mounted == MountedWith(TRUE)

\* nothing but the voice core, the codec and the assistant has run
RestIdle ==
  /\ calls = [c \in Slots |-> NoLocals]
  /\ movieRows = <<>>
  /\ popularCalls = [c \in Slots |-> NoLocals]
  /\ userFavorites = <<>>
  /\ favCall = NoFavoriteCall
  /\ vn = Mounted

VoiceIdle ==
  /\ req = NoRequest
  /\ norm = <<>>
  /\ commandIntent = NoIntent
  /\ lookups = <<>>
  /\ res = NoResponse

Init ==
  /\ movies \in Stores(SampleRows)
  /\ VoiceIdle
  /\ BrailleIdle
  /\ AIIdle
  /\ RestIdle

InitDetails ==
  /\ movies \in Stores(FlagRows)
  /\ VoiceIdle
  /\ BrailleIdle
  /\ AIIdle
  /\ RestIdle

\* one call of the endpoint, from request to response or raised error
ProcessVoiceCommand(command, context, movieId, userId) ==
  /\ Idle
  /\ \E r \in {[command |-> command, context |-> context,
                 movieId |-> movieId, userId |-> userId]} :
     \E normalizedCommand \in {normalizedCommandOf(command)} :
     \E ci \in {analyzeCommandIntent(normalizedCommand, contextOf(r))} :
     \E out \in {dispatch(contextOf(r), normalizedCommand, ci, r, movies)} :
       /\ req' = r
       /\ norm' = normalizedCommand
       /\ commandIntent' = ci
       /\ lookups' = out.lookups
       /\ res' = out.res
  /\ UNCHANGED <<movies, brailleVars, ai, restVars>>

\* the response (or the error) reaches the caller; the core keeps nothing
Return ==
  /\ ~Idle
  /\ req' = NoRequest
  /\ norm' = <<>>
  /\ commandIntent' = NoIntent
  /\ lookups' = <<>>
  /\ res' = NoResponse
  /\ UNCHANGED <<movies, brailleVars, ai, restVars>>

\* a client of the database inserts, replaces or deletes the row of an id;
\* the table's schema decides which rows it can hold
StoreWrite(id, row) ==
  /\ Idle
  /\ movies' = [movies EXCEPT ![id] = row]
  /\ movies' # movies
  /\ UNCHANGED <<req, norm, commandIntent, lookups, res, brailleVars, ai, restVars>>

\* movieIds sent with a context: the player and details handlers read the
\* movieId, the search and navigation handlers are not passed it
RequestIdsFor(context) ==
  IF context \in {<<"player">>, <<"details">>} THEN RequestIds ELSE {<<>>, <<1>>}

Next ==
  \/ /\ Idle
     /\ \E context \in RequestContexts :
        \E movieId \in RequestIdsFor(context), command \in UtterancesOf(PhrasesFor(context)) :
          ProcessVoiceCommand(command, context, movieId, <<"demo-user">>)
  \/ Return
  \/ /\ Idle
     /\ \E id \in Ids, row \in RowOptions(SampleRows) : StoreWrite(id, row)

Spec == Init /\ [][Next]_vars

NextDetails ==
  \/ /\ Idle
     /\ \E movieId \in RequestIds, command \in UtterancesOf(DetailsPhrases) :
          ProcessVoiceCommand(command, <<"details">>, movieId, <<>>)
  \/ Return
  \/ /\ Idle
     /\ \E id \in Ids, row \in RowOptions(FlagRows) : StoreWrite(id, row)

SpecDetails == InitDetails /\ [][NextDetails]_vars

NextIntents ==
  \/ /\ Idle
     /\ \E context \in OpenContexts, command \in UtterancesOf(IntentPhrases) :
          ProcessVoiceCommand(command, context, <<>>, <<"demo-user">>)
  \/ Return

SpecIntents == Init /\ [][NextIntents]_vars

(***************************************************************************)
(* Vocabulary of the claims                                                *)
(***************************************************************************)
Called == res.kind # "none"

Context == contextOf(req)

NeedsId == Context \in {"player", "details"}

\* the request names an id the handlers take for one (0 is taken for none)
HasId == req.movieId # <<>> /\ req.movieId # <<0>>

\* the row the request's id refers to, <<>> when there is none
Referenced ==
  IF req.movieId # <<>> /\ req.movieId[1] \in DOMAIN movies
    THEN movies[req.movieId[1]]
    ELSE <<>>

Says(phrase) == Includes(norm, phrase)

\* no entry of the context's decision table matches the normalized command
TableMiss ==
  CASE Context = "search" ->
         commandIntent.intent \notin {"search", "find", "filter", "recommend"}
    [] Context = "player" ->
         /\ commandIntent.intent \notin {"play", "pause"}
         /\ ~Says(<<"v","o","l","u","m","e">>) /\ ~Says(<<"c","a","p","t","i","o","n">>) /\ ~Says(<<"s","u","b","t","i","t","l","e">>)
         /\ ~Says(<<"d","e","s","c","r","i","b","e">>) /\ ~Says(<<"n","a","r","r","a","t","e">>)
    [] Context = "details" ->
         /\ commandIntent.intent # "describe" /\ ~Says(<<"t","e","l","l"," ","m","e"," ","a","b","o","u","t">>)
         /\ ~Says(<<"a","c","c","e","s","s","i","b","i","l","i","t","y">>) /\ ~Says(<<"f","e","a","t","u","r","e","s">>)
         /\ ~Says(<<"r","a","t","i","n","g">>) /\ ~Says(<<"h","o","w"," ","g","o","o","d">>)
         /\ ~Says(<<"s","i","m","i","l","a","r">>) /\ ~Says(<<"l","i","k","e"," ","t","h","i","s">>)
    [] OTHER ->
         /\ ~Says(<<"g","o"," ","h","o","m","e">>) /\ ~Says(<<"m","a","i","n"," ","p","a","g","e">>)
         /\ ~Says(<<"s","e","a","r","c","h"," ","p","a","g","e">>) /\ ~Says(<<"f","i","n","d"," ","m","o","v","i","e","s">>)
         /\ ~Says(<<"f","a","v","o","r","i","t","e","s">>) /\ ~Says(<<"m","y"," ","m","o","v","i","e","s">>)
         /\ ~Says(<<"s","e","t","t","i","n","g","s">>) /\ ~Says(<<"a","c","c","e","s","s","i","b","i","l","i","t","y"," ","o","p","t","i","o","n","s">>)
         /\ commandIntent.intent # "help" /\ ~Says(<<"w","h","a","t"," ","c","a","n"," ","I"," ","s","a","y">>)

(***************************************************************************)
(* C1.  A call in the player or details context that carries no movieId    *)
(* fails with InvalidArgument whatever the utterance is, and it fails      *)
(* before any row of the movies table is looked up.                        *)
(***************************************************************************)
C1_MissingIdIsInvalidArgument ==
  (Called /\ NeedsId /\ req.movieId = <<>>)
    => (res = Raise("invalid_argument") /\ lookups = <<>>)

C1_Witness ==
  /\ Called /\ Context = "player" /\ req.movieId = <<>>
  /\ norm = <<"p","l","a","y">>
  /\ res = Raise("invalid_argument")

(***************************************************************************)
(* C2.  As claimed: in the details context, whenever a movieId is supplied *)
(* and no row has that id, the call fails with NotFound.                   *)
(***************************************************************************)
C2_SuppliedMissingContentIsNotFound ==
  (Called /\ Context = "details" /\ req.movieId # <<>> /\ Referenced = <<>>)
    => res = Raise("not_found")

(***************************************************************************)
(* C2, amended.  In the details context, whenever a non-zero movieId is    *)
(* supplied and no row has that id, the call fails with NotFound for every *)
(* utterance, recognized or not, and never returns a response; a movieId   *)
(* of 0 is taken for a missing one and fails with InvalidArgument.         *)
(***************************************************************************)
C2_MissingContentIsNotFound ==
  /\ (Called /\ Context = "details" /\ HasId /\ Referenced = <<>>)
       => (res = Raise("not_found") /\ lookups = <<req.movieId>>)
  /\ (Called /\ Context = "details" /\ req.movieId = <<0>>)
       => res = Raise("invalid_argument")

C2_Witness ==
  /\ Called /\ Context = "details" /\ req.movieId = <<1>> /\ Referenced = <<>>
  /\ TableMiss
  /\ res = Raise("not_found")

(***************************************************************************)
(* C3.  As claimed: no utterance makes the call fail.  A call in the       *)
(* search or navigation context, and a call in the player or details       *)
(* context whose movieId refers to an existing row, whatever the columns   *)
(* of the row hold, returns a response.                                    *)
(***************************************************************************)
C3_NoUtteranceFails ==
  (Called /\ (~NeedsId \/ Referenced # <<>>)) => res.kind = "ok"

(***************************************************************************)
(* C4.  When the decision table of the context is consulted (the movieId   *)
(* a player or details call needs is there, and in the details context its *)
(* row exists) and no entry matches the utterance, the call returns a      *)
(* response with action unknown, a non-empty help speech text and no       *)
(* predicted next actions; it is not an error.                             *)
(***************************************************************************)
TableConsulted ==
  CASE Context = "player"  -> HasId
    [] Context = "details" -> HasId /\ Referenced # <<>>
    [] OTHER               -> TRUE

C4_UnrecognizedIsUnknown ==
  (Called /\ TableConsulted /\ TableMiss)
    => /\ res.kind = "ok"
       /\ res.action = "unknown"
       /\ res.speechText # ""
       /\ res.response # ""
       /\ res.predictedNextActions = <<>>

C4_Witness ==
  /\ Called /\ Context = "navigation" /\ req.context = <<"navigation">>
  /\ norm = <<"x","y","z","z","y">>
  /\ res.kind = "ok" /\ res.action = "unknown"

(***************************************************************************)
(* C5.  In every response each predicted next action has a confidence in   *)
(* [0,1], and the confidence of the classified intent is 0 or 0.8, and 0   *)
(* exactly when the intent is unknown.                                     *)
(***************************************************************************)
C5_ConfidenceRanges ==
  Called =>
    /\ commandIntent.confidence \in {0, 80}
    /\ commandIntent.confidence = 0 <=> commandIntent.intent = "unknown"
    /\ res.kind = "ok" =>
         \A i \in 1..Len(res.predictedNextActions) :
           /\ res.predictedNextActions[i].confidence >= 0
           /\ res.predictedNextActions[i].confidence <= 100

C5_Witness ==
  /\ Called /\ res.kind = "ok"
  /\ commandIntent.intent = "unknown" /\ commandIntent.confidence = 0
  /\ Len(res.predictedNextActions) = 2
  /\ res.predictedNextActions[1].confidence = 90

(***************************************************************************)
(* C6.  As claimed: in the search context the utterance "search for T"     *)
(* yields action search with data.query equal to T exactly as it was       *)
(* given ("search for Free Solo" gives "Free Solo").                       *)
(***************************************************************************)
SearchFor == <<"s","e","a","r","c","h"," ","f","o","r"," ">>

\* the utterance is "search for T" with a non-empty T that has no space
\* at either end; the value is <<T>>, and <<>> for any other utterance
SearchForTerm ==
  LET c == req.command
      n == Len(SearchFor)
  IN  IF /\ Len(c) > n
         /\ SubSeq(c, 1, n) = SearchFor
         /\ c[n + 1] \notin WhiteSpace
         /\ c[Len(c)] \notin WhiteSpace
        THEN <<SubSeq(c, n + 1, Len(c))>> ELSE <<>>

C6_QueryIsTermAsGiven ==
  (Called /\ Context = "search" /\ SearchForTerm # <<>>)
    => /\ res.kind = "ok"
       /\ res.action = "search"
       /\ res.data.query = SearchForTerm[1]

C7_WitnessOff ==
  /\ Called /\ Context = "player" /\ req.movieId = <<1>>
  /\ req.command = <<"s","u","b","t","i","t","l","e","s"," ","o","f","f">>
  /\ res.kind = "ok" /\ res.action = "captions" /\ res.data.enable = FALSE

(***************************************************************************)
(* C8.  In the details context, for an utterance containing                *)
(* "accessibility" or "features" that matches no earlier details entry,    *)
(* data.features lists exactly the accessibility attributes of the row     *)
(* that are true, in the order audio description, closed captions, sign    *)
(* language, narration; the speech text lists them, or is the fixed "none  *)
(* listed" sentence when the list is empty; a row with only audio          *)
(* description gives exactly <<"audio description">>.                      *)
(***************************************************************************)
FeatureOrder == <<"audio description", "closed captions",
                  "sign language interpretation", "detailed AI narration">>

\* the accessibility attribute of the row that a feature name stands for
AttributeHolds(row, feature) ==
  CASE feature = "audio description" -> row.audio_description_available = <<TRUE>>
    [] feature = "closed captions" -> row.closed_captions_available = <<TRUE>>
    [] feature = "sign language interpretation" -> row.sign_language_available = <<TRUE>>
    [] feature = "detailed AI narration" ->
         row.narrated_description \notin {<<>>, <<"">>}

FeaturesAsked ==
  /\ Called /\ Context = "details" /\ HasId /\ Referenced # <<>>
  /\ commandIntent.intent # "describe" /\ ~Says(<<"t","e","l","l"," ","m","e"," ","a","b","o","u","t">>)
  /\ Says(<<"a","c","c","e","s","s","i","b","i","l","i","t","y">>) \/ Says(<<"f","e","a","t","u","r","e","s">>)

C8_FeaturesListed ==
  FeaturesAsked =>
    LET row == Referenced[1]
        Holds(feature) == AttributeHolds(row, feature)
        expected == SelectSeq(FeatureOrder, Holds)
    IN  /\ res.kind = "ok"
        /\ res.action = "accessibility_features"
        /\ res.data.features = expected
        /\ res.speechText =
             IF expected = <<>> THEN <<NoFeaturesText>>
             ELSE <<"This movie has the following accessibility features: ", expected, ".">>
        /\ ( /\ row.audio_description_available = <<TRUE>>
             /\ row.closed_captions_available # <<TRUE>>
             /\ row.sign_language_available # <<TRUE>>
             /\ row.narrated_description \in {<<>>, <<"">>} )
             => res.data.features = <<"audio description">>

C8_Witness ==
  /\ FeaturesAsked
  /\ norm = <<"a","c","c","e","s","s","i","b","i","l","i","t","y"," ","f","e","a","t","u","r","e","s">>
  /\ Referenced[1].audio_description_available = <<TRUE>>
  /\ Referenced[1].closed_captions_available = <<FALSE>>
  /\ res.data.features = <<"audio description">>

C8_WitnessSeveral ==
  /\ FeaturesAsked
  /\ res.data.features = <<"closed captions", "detailed AI narration">>

C8_WitnessNone ==
  /\ FeaturesAsked
  /\ res.data.features = <<>>
  /\ res.speechText = <<NoFeaturesText>>

(***************************************************************************)
(* BrailleCodec                                                            *)
(*                                                                         *)
(* A braille cell is named by its code point ("2801" is U+2801); the cell  *)
(* literals of the source are read as the braille patterns their bytes     *)
(* encode.  A converted text is a sequence of units: cells, and the        *)
(* characters that have no cell.                                           *)
(***************************************************************************)
\* the entries of brailleMap for single characters: letters, digits (number
\* sign 283C, then the letter cell) and punctuation
characterCells == <<
  [key |-> <<"a">>, cells |-> <<"2801">>],
  [key |-> <<"b">>, cells |-> <<"2803">>],
  [key |-> <<"c">>, cells |-> <<"2809">>],
  [key |-> <<"d">>, cells |-> <<"2819">>],
  [key |-> <<"e">>, cells |-> <<"2811">>],
  [key |-> <<"f">>, cells |-> <<"280B">>],
  [key |-> <<"g">>, cells |-> <<"281B">>],
  [key |-> <<"h">>, cells |-> <<"2813">>],
  [key |-> <<"i">>, cells |-> <<"280A">>],
  [key |-> <<"j">>, cells |-> <<"281A">>],
  [key |-> <<"k">>, cells |-> <<"2805">>],
  [key |-> <<"l">>, cells |-> <<"2807">>],
  [key |-> <<"m">>, cells |-> <<"280D">>],
  [key |-> <<"n">>, cells |-> <<"281D">>],
  [key |-> <<"o">>, cells |-> <<"2815">>],
  [key |-> <<"p">>, cells |-> <<"280F">>],
  [key |-> <<"q">>, cells |-> <<"281F">>],
  [key |-> <<"r">>, cells |-> <<"2817">>],
  [key |-> <<"s">>, cells |-> <<"280E">>],
  [key |-> <<"t">>, cells |-> <<"281E">>],
  [key |-> <<"u">>, cells |-> <<"2825">>],
  [key |-> <<"v">>, cells |-> <<"2827">>],
  [key |-> <<"w">>, cells |-> <<"283A">>],
  [key |-> <<"x">>, cells |-> <<"282D">>],
  [key |-> <<"y">>, cells |-> <<"283D">>],
  [key |-> <<"z">>, cells |-> <<"2835">>],
  [key |-> <<"1">>, cells |-> <<"283C", "2801">>],
  [key |-> <<"2">>, cells |-> <<"283C", "2803">>],
  [key |-> <<"3">>, cells |-> <<"283C", "2809">>],
  [key |-> <<"4">>, cells |-> <<"283C", "2819">>],
  [key |-> <<"5">>, cells |-> <<"283C", "2811">>],
  [key |-> <<"6">>, cells |-> <<"283C", "280B">>],
  [key |-> <<"7">>, cells |-> <<"283C", "281B">>],
  [key |-> <<"8">>, cells |-> <<"283C", "2813">>],
  [key |-> <<"9">>, cells |-> <<"283C", "280A">>],
  [key |-> <<"0">>, cells |-> <<"283C", "281A">>],
  [key |-> <<" ">>, cells |-> <<"2800">>],
  [key |-> <<".">>, cells |-> <<"2832">>],
  [key |-> <<",">>, cells |-> <<"2802">>],
  [key |-> <<"!">>, cells |-> <<"2816">>],
  [key |-> <<"?">>, cells |-> <<"2826">>],
  [key |-> <<":">>, cells |-> <<"2812">>],
  [key |-> <<";">>, cells |-> <<"2806">>],
  [key |-> <<"-">>, cells |-> <<"2824">>],
  [key |-> <<"(">>, cells |-> <<"2836">>],
  [key |-> <<")">>, cells |-> <<"2836">>],
  [key |-> <<"\"">>, cells |-> <<"2826">>],
  [key |-> <<"'">>, cells |-> <<"2804">>],
  [key |-> <<"/">>, cells |-> <<"280C">>],
  [key |-> <<"\\">>, cells |-> <<"2821">>] >>

\* the contractions spread into brailleMap when grade is '2'
contractionCells == <<
  [key |-> <<"a","n","d">>, cells |-> <<"282F">>],
  [key |-> <<"f","o","r">>, cells |-> <<"283F">>],
  [key |-> <<"o","f">>, cells |-> <<"2837">>],
  [key |-> <<"t","h","e">>, cells |-> <<"282E">>],
  [key |-> <<"w","i","t","h">>, cells |-> <<"283E">>],
  [key |-> <<"y","o","u">>, cells |-> <<"283D">>],
  [key |-> <<"a","s">>, cells |-> <<"2835">>],
  [key |-> <<"b","u","t">>, cells |-> <<"2803">>],
  [key |-> <<"c","a","n">>, cells |-> <<"2809">>],
  [key |-> <<"d","o">>, cells |-> <<"2819">>],
  [key |-> <<"e","v","e","r","y">>, cells |-> <<"2811">>],
  [key |-> <<"f","r","o","m">>, cells |-> <<"280B">>],
  [key |-> <<"g","o">>, cells |-> <<"281B">>],
  [key |-> <<"h","a","v","e">>, cells |-> <<"2813">>],
  [key |-> <<"j","u","s","t">>, cells |-> <<"281A">>],
  [key |-> <<"k","n","o","w","l","e","d","g","e">>, cells |-> <<"2805">>],
  [key |-> <<"l","i","k","e">>, cells |-> <<"2807">>],
  [key |-> <<"m","o","r","e">>, cells |-> <<"280D">>],
  [key |-> <<"n","o","t">>, cells |-> <<"281D">>],
  [key |-> <<"p","e","o","p","l","e">>, cells |-> <<"280F">>],
  [key |-> <<"q","u","i","t","e">>, cells |-> <<"281F">>],
  [key |-> <<"r","a","t","h","e","r">>, cells |-> <<"2817">>],
  [key |-> <<"s","o">>, cells |-> <<"280E">>],
  [key |-> <<"t","h","a","t">>, cells |-> <<"281E">>],
  [key |-> <<"u","s">>, cells |-> <<"2825">>],
  [key |-> <<"v","e","r","y">>, cells |-> <<"2827">>],
  [key |-> <<"w","i","l","l">>, cells |-> <<"283A">>],
  [key |-> <<"i","t">>, cells |-> <<"282D">>],
  [key |-> <<"w","e","r","e">>, cells |-> <<"283D">>],
  [key |-> <<"h","i","s">>, cells |-> <<"2835">>] >>

\* what the object literal inherits from Object.prototype under a lower-case
\* key of 2 to 10 characters: "__proto__", which reads as the prototype
\* object and is appended as "[object Object]"
inheritedCells == <<
  [key |-> <<"_","_","p","r","o","t","o","_","_">>, cells |-> <<"[","o","b","j","e","c","t"," ","O","b","j","e","c","t","]">>] >>

brailleMap_SharedCell(grade) ==
  inheritedCells
  \o [i \in DOMAIN characterCells |->
        IF characterCells[i].key = <<"s">>
          THEN [key |-> <<"s">>, cells |-> <<"2801">>]
          ELSE characterCells[i]]
  \o (IF grade = "2" THEN contractionCells ELSE <<>>)

\* the brailleMap object of a call
brailleMap(grade) ==
  inheritedCells \o characterCells \o (IF grade = "2" THEN contractionCells ELSE <<>>)

\* map[key] when it is truthy: <<>> when the map has no such key, else
\* <<cells>> (of a key written twice the last value counts)
Lookup(map, key) ==
  LET hit == {i \in 1..Len(map) : map[i].key = key}
  IN  IF hit = {} THEN <<>>
      ELSE <<map[CHOOSE i \in hit : \A j \in hit : i >= j].cells>>

\* inputText.substr(i, len) with i counted from 1
substr(text, i, len) ==
  SubSeq(text, i, IF i + len - 1 > Len(text) THEN Len(text) ELSE i + len - 1)

RECURSIVE contractionAt(_, _, _, _)
\* the for loop of lines 70-78: the first len from 10 down to 2 for which
\* the lower-cased substr(i, len) is a key of the map; <<>> when there is
\* none, else <<len, cells>>
contractionAt(map, inputText, i, len) ==
  IF len < 2 THEN <<>>
  ELSE LET m == Lookup(map, ToLowerCase(substr(inputText, i, len)))
       IN  IF m # <<>> THEN <<len, m[1]>>
           ELSE contractionAt(map, inputText, i, len - 1)

RECURSIVE transliterate(_, _, _)
\* the while loop of lines 62-91, from cursor i on
transliterate(inputText, grade, i) ==
  IF i > Len(inputText) THEN <<>>
  ELSE LET map == brailleMap(grade)
           c == IF grade = "2" THEN contractionAt(map, inputText, i, 10) ELSE <<>>
       IN  IF c # <<>> THEN c[2] \o transliterate(inputText, grade, i + c[1])
           ELSE LET char == LowerUnits(inputText[i])
                    m == Lookup(map, char)
                IN  (IF m # <<>> THEN m[1] ELSE char)
                      \o transliterate(inputText, grade, i + 1)

RECURSIVE chunks_DropsShortLine(_, _)
chunks_DropsShortLine(brailleText, cellsPerLine) ==
  IF Len(brailleText) < cellsPerLine THEN <<>>
  ELSE <<substr(brailleText, 1, cellsPerLine)>>
         \o chunks_DropsShortLine(SubSeq(brailleText, cellsPerLine + 1, Len(brailleText)),
                                  cellsPerLine)

RECURSIVE chunks_SkipsCell(_, _)
chunks_SkipsCell(brailleText, cellsPerLine) ==
  IF brailleText = <<>> THEN <<>>
  ELSE <<substr(brailleText, 1, cellsPerLine)>>
         \o chunks_SkipsCell(SubSeq(brailleText, cellsPerLine + 2, Len(brailleText)),
                             cellsPerLine)

RECURSIVE chunks(_, _)
\* the lines array of formatBrailleLines
chunks(brailleText, cellsPerLine) ==
  IF brailleText = <<>> THEN <<>>
  ELSE <<substr(brailleText, 1, cellsPerLine)>>
         \o chunks(SubSeq(brailleText, cellsPerLine + 1, Len(brailleText)), cellsPerLine)

RECURSIVE join(_, _)
\* Array.prototype.join
join(lines, separator) ==
  IF lines = <<>> THEN <<>>
  ELSE IF Len(lines) = 1 THEN lines[1]
  ELSE lines[1] \o <<separator>> \o join(Tail(lines), separator)

formatBrailleLines(brailleText, cellsPerLine) ==
  join(chunks(brailleText, cellsPerLine), "\n")

convertToBraille(inputText, grade, cellsPerLine) ==
  formatBrailleLines(transliterate(inputText, grade, 1), cellsPerLine)

\* characters braille input texts are built from: letters, a capital, a
\* digit, punctuation (the two parentheses among it), a character without
\* a cell and a line break
BrailleAlphabet == {"a", "s", "A", "7", ",", "(", ")", "#", "\n"}

RECURSIVE Texts(_)
\* the texts of at most n characters
Texts(n) ==
  IF n = 0 THEN {<<>>}
  ELSE Texts(n - 1) \cup
       {t \o <<c>> : t \in {u \in Texts(n - 1) : Len(u) = n - 1}, c \in BrailleAlphabet}

\* longer texts: a contraction inside a word, the longest contraction, and
\* a name every object inherits
SampleTexts == {<<"s","a","n","d">>, <<"K","n","o","w","l","e","d","g","e">>, <<"_","_","p","r","o","t","o","_","_">>}

Grades == {"1", "2"}

NotConverted == <<"not converted">>

InitBraille ==
  /\ movies \in Stores({})
  /\ VoiceIdle
  /\ AIIdle
  /\ RestIdle
  /\ brText = <<>>
  /\ brGrade = "1"
  /\ brCells = 1
  /\ brOut = NotConverted
  /\ brEnabled = FALSE

\* one call of convertToBraille with the cellsPerLine in force
Convert(text, grade, cellsPerLine) ==
  /\ brOut = NotConverted
  /\ brText' = text
  /\ brGrade' = grade
  /\ brCells' = cellsPerLine
  /\ brOut' = convertToBraille(text, grade, cellsPerLine)
  /\ UNCHANGED <<voiceVars, brEnabled, ai, restVars>>

\* the caller takes the string; the function keeps nothing
Converted ==
  /\ brOut # NotConverted
  /\ brText' = <<>>
  /\ brGrade' = "1"
  /\ brCells' = 1
  /\ brOut' = NotConverted
  /\ UNCHANGED <<voiceVars, brEnabled, ai, restVars>>

NextBraille ==
  \/ /\ brOut = NotConverted
     /\ \E text \in Texts(MaxLen) \cup SampleTexts, grade \in Grades,
           cellsPerLine \in 1..MaxCells :
          Convert(text, grade, cellsPerLine)
  \/ Converted

SpecBraille == InitBraille /\ [][NextBraille]_vars

(***************************************************************************)
(* The BrailleDisplay component: its text prop and its state               *)
(***************************************************************************)
\* texts the text prop takes: the texts over two letters that form a
\* contraction, and a longer one
DisplayTexts ==
  {t \in Texts(MaxLen) : \A i \in DOMAIN t : t[i] \in {"a", "s"}} \cup {<<"s","a","n","d">>}

\* the effect of lines 23-30, run after a render in which text,
\* brailleEnabled or brailleGrade changed: the new brailleText.  The
\* convertToBraille it calls is the one of that render and reads that
\* render's cellsPerLine
brailleEffect(text, enabled, grade, cellsPerLine) ==
  IF text # <<>> /\ enabled THEN convertToBraille(text, grade, cellsPerLine) ELSE <<>>

\* after mounting: the defaults of lines 17-20 and the first run of the
\* effect (the narrowest line width stands for the default of 40)
InitDisplay ==
  /\ movies \in Stores({})
  /\ VoiceIdle
  /\ AIIdle
  /\ RestIdle
  /\ brText \in DisplayTexts
  /\ brEnabled = FALSE
  /\ brGrade = "1"
  /\ brCells = 1
  /\ brOut = <<>>

\* the parent renders the component with another text
ChangeText(text) ==
  /\ text # brText
  /\ brText' = text
  /\ brOut' = brailleEffect(text, brEnabled, brGrade, brCells)
  /\ UNCHANGED <<voiceVars, brEnabled, brGrade, brCells, ai, restVars>>

\* the switch of line 154
SetBrailleEnabled(checked) ==
  /\ checked # brEnabled
  /\ brEnabled' = checked
  /\ brOut' = brailleEffect(brText, checked, brGrade, brCells)
  /\ UNCHANGED <<voiceVars, brText, brGrade, brCells, ai, restVars>>

\* the grade select of line 169, rendered while braille is enabled
SetBrailleGrade(value) ==
  /\ brEnabled
  /\ value # brGrade
  /\ brGrade' = value
  /\ brOut' = brailleEffect(brText, brEnabled, value, brCells)
  /\ UNCHANGED <<voiceVars, brText, brEnabled, brCells, ai, restVars>>

\* the cells-per-line select of line 186, rendered while braille is
\* enabled; cellsPerLine is not among the dependencies of the effect
\* (line 30), so the effect does not run
SetCellsPerLine(value) ==
  /\ brEnabled
  /\ value # brCells
  /\ brCells' = value
  /\ UNCHANGED <<voiceVars, brText, brEnabled, brGrade, brOut, ai, restVars>>

NextDisplay ==
  \/ \E text \in DisplayTexts : ChangeText(text)
  \/ \E checked \in BOOLEAN : SetBrailleEnabled(checked)
  \/ \E value \in Grades : SetBrailleGrade(value)
  \/ \E value \in 1..MaxCells : SetCellsPerLine(value)

SpecDisplay == InitDisplay /\ [][NextDisplay]_vars

(***************************************************************************)
(* C9.  As claimed: for every input text and every cellsPerLine >= 1 the   *)
(* Grade 1 output with its line breaks removed has exactly as many cells   *)
(* as the input has characters.                                            *)
(***************************************************************************)
\* the returned string without the line breaks formatBrailleLines put in:
\* one after every cellsPerLine units
Rejoin(out, cellsPerLine) ==
  LET kept == {i \in 1..Len(out) : i % (cellsPerLine + 1) # 0}
  IN  [k \in 1..Cardinality(kept) |->
         out[CHOOSE i \in kept : i - (i \div (cellsPerLine + 1)) = k]]

Digits == {"0", "1", "2", "3", "4", "5", "6", "7", "8", "9"}

DigitCount(text) == Cardinality({i \in 1..Len(text) : text[i] \in Digits})

ConvertedGrade1 == brOut # NotConverted /\ brGrade = "1"

C9_OneCellPerCharacter ==
  ConvertedGrade1 => Len(Rejoin(brOut, brCells)) = Len(brText)

(***************************************************************************)
(* C9, amended.  For every input text whose characters each lower-case to  *)
(* a single character, and every cellsPerLine >= 1, the Grade 1 output     *)
(* with its line breaks removed has one cell per input character plus one  *)
(* more (the number sign) per digit: a digit produces two cells, every     *)
(* other character exactly one.                                            *)
(***************************************************************************)
PlainText(text) == \A i \in 1..Len(text) : Len(LowerUnits(text[i])) = 1

C9_OneCellPerCharacterTwoPerDigit ==
  (ConvertedGrade1 /\ PlainText(brText))
    => Len(Rejoin(brOut, brCells)) = Len(brText) + DigitCount(brText)

C9_Witness ==
  /\ ConvertedGrade1
  /\ brText = <<"a", "7", "\n">>
  /\ brCells = 2
  /\ brOut = <<"2801", "283C", "\n", "281B", "\n">>
  /\ Rejoin(brOut, brCells) = <<"2801", "283C", "281B", "\n">>


(***************************************************************************)
(* Assistant endpoints (unnamed/part_007): recommendations, smart search   *)
(* and accessibility analysis over the movies table.                       *)
(*                                                                         *)
(* Scores and confidences are in hundredths (0.3 is 30).  The text         *)
(* patterns of the SQL queries (ILIKE on title, overview and               *)
(* accessibility_features) are matched by the database on text the model   *)
(* keeps opaque: which rows match is an input of the call.                 *)
(***************************************************************************)
Min(a, b) == IF a <= b THEN a ELSE b

\* a movies row with the genres column the assistant reads
CatalogueRow(title, narrated, average, ad, cc, sl, genreNames) ==
  [title |-> title, overview |-> <<"An overview.">>, narrated_description |-> narrated,
   vote_average |-> average, vote_count |-> <<100>>,
   audio_description_available |-> ad, closed_captions_available |-> cc,
   sign_language_available |-> sl, genres |-> genreNames]

\* rows explored by SpecAI: all four attributes, audio description and
\* captions only, none, narration only, NULL flags with an empty narration,
\* and sign language with narration
CatalogueRows ==
  { CatalogueRow("Free Solo", <<"Narrated.">>, <<725>>, <<TRUE>>, <<TRUE>>, <<TRUE>>, <<<<"Documentary">>>>),
    CatalogueRow("Seeing Voices", <<>>, <<725>>, <<TRUE>>, <<TRUE>>, <<FALSE>>, <<>>),
    CatalogueRow("Untitled", <<>>, <<0>>, <<FALSE>>, <<FALSE>>, <<FALSE>>, <<<<"Comedy">>>>),
    CatalogueRow("Planet", <<"Narrated.">>, <<810>>, <<FALSE>>, <<FALSE>>, <<FALSE>>, <<<<"Drama">>>>),
    CatalogueRow("", <<"">>, <<>>, <<>>, <<>>, <<>>, <<>>),
    CatalogueRow("Signs", <<"Narrated.">>, <<650>>, <<FALSE>>, <<FALSE>>, <<TRUE>>, <<<<"Drama", "Biography">>>>) }

\* ids that may hold a row under SpecAI
CatalogueIds == {1, 2}

\* the rows of the table with their id column
TableRows(db) == {[id |-> i] @@ db[i][1] : i \in {j \in DOMAIN db : db[j] # <<>>}}

\* a row as a SELECT with the given column list returns it: a column that
\* is not selected reads as undefined, which is falsy like NULL
Select(row, columns) ==
  [c \in DOMAIN row |-> IF c \in columns THEN row[c] ELSE <<>>]

\* ORDER BY vote_average DESC: NULLs first, then falling averages; rows with
\* equal averages come in an order the database chooses
OrderedByAverage(rows) ==
  LET AverageRank(row) == IF row.vote_average = <<>> THEN 100000 ELSE row.vote_average[1]
  IN  {f \in [1..Cardinality(rows) -> rows] :
         /\ \A r \in rows : \E i \in DOMAIN f : f[i] = r
         /\ \A i \in DOMAIN f : \A j \in DOMAIN f :
              i < j => AverageRank(f[i]) >= AverageRank(f[j])}

\* Array.prototype.sort with the comparator (a, b) => b.key - a.key: falling
\* keys, elements with equal keys keep their order; a key is a pair,
\* compared lexicographically
InsertByKey(sorted, x) ==
  LET KeyLess(k, l) == k[1] < l[1] \/ (k[1] = l[1] /\ k[2] < l[2])
      n == Cardinality({i \in DOMAIN sorted : ~KeyLess(sorted[i].key, x.key)})
  IN  SubSeq(sorted, 1, n) \o <<x>> \o SubSeq(sorted, n + 1, Len(sorted))

RECURSIVE SortByKey(_)
SortByKey(items) ==
  IF items = <<>> THEN <<>>
  ELSE InsertByKey(SortByKey(SubSeq(items, 1, Len(items) - 1)), items[Len(items)])

\* Array.prototype.slice(0, n)
Slice(items, n) == SubSeq(items, 1, Min(n, Len(items)))

\* calculateMovieAccessibilityScore
calculateMovieAccessibilityScore(movie) ==
  Min((IF TruthyFlag(movie.audio_description_available) THEN 30 ELSE 0)
      + (IF TruthyFlag(movie.closed_captions_available) THEN 30 ELSE 0)
      + (IF TruthyFlag(movie.sign_language_available) THEN 20 ELSE 0)
      + (IF TruthyText(movie.narrated_description) THEN 20 ELSE 0),
      100)

\* the accessibilityScore of scoreRecommendations, lines 311-319 and 355
recommendationAccessibilityScore(movie) ==
  Min((IF TruthyFlag(movie.audio_description_available) THEN 30 ELSE 0)
      + (IF TruthyFlag(movie.closed_captions_available) THEN 30 ELSE 0)
      + (IF TruthyFlag(movie.sign_language_available) THEN 20 ELSE 0)
      + (IF TruthyText(movie.narrated_description) THEN 20 ELSE 0),
      100)

\* analyzeAccessibilityFeatures: "available" carries the column as it is,
\* except aiNarration, which is !!narrated_description
analyzeAccessibilityFeatures(movie) ==
  [audioDescription |->
     [available |-> movie.audio_description_available,
      quality |-> IF TruthyFlag(movie.audio_description_available) THEN "professional" ELSE "none",
      coverage |-> IF TruthyFlag(movie.audio_description_available) THEN "complete" ELSE "none"],
   closedCaptions |->
     [available |-> movie.closed_captions_available,
      languages |-> IF TruthyFlag(movie.closed_captions_available) THEN <<"English">> ELSE <<>>,
      accuracy |-> IF TruthyFlag(movie.closed_captions_available) THEN "high" ELSE "none"],
   signLanguage |->
     [available |-> movie.sign_language_available,
      type |-> IF TruthyFlag(movie.sign_language_available) THEN "ASL" ELSE "none"],
   aiNarration |->
     [available |-> <<TruthyText(movie.narrated_description)>>,
      quality |-> IF TruthyText(movie.narrated_description) THEN "ai_generated" ELSE "none"]]

\* generateAccessibilityImprovements
generateAccessibilityImprovements(movie, analysis) ==
  (IF ~TruthyFlag(analysis.audioDescription.available)
     THEN <<"Add professional audio descriptions">> ELSE <<>>)
  \o (IF ~TruthyFlag(analysis.closedCaptions.available)
        THEN <<"Add closed captions with sound effect descriptions">> ELSE <<>>)
  \o (IF ~TruthyFlag(analysis.signLanguage.available)
        THEN <<"Consider adding sign language interpretation">> ELSE <<>>)
  \o (IF ~TruthyFlag(analysis.aiNarration.available)
        THEN <<"Generate AI-powered detailed narration">> ELSE <<>>)

\* calculateAccessibilityScore: (score / maxScore) * 100, a number between 0
\* and 100; in hundredths like every score
calculateAccessibilityScore(movie, analysis) ==
  LET score == (IF TruthyFlag(analysis.audioDescription.available) THEN 1 ELSE 0)
               + (IF TruthyFlag(analysis.closedCaptions.available) THEN 1 ELSE 0)
               + (IF TruthyFlag(analysis.signLanguage.available) THEN 1 ELSE 0)
               + (IF TruthyFlag(analysis.aiNarration.available) THEN 1 ELSE 0)
      maxScore == 4
  IN  ((score * 100) \div maxScore) * 100

\* determineSuitability
determineSuitability(analysis) ==
  (IF TruthyFlag(analysis.audioDescription.available) \/ TruthyFlag(analysis.aiNarration.available)
     THEN <<"Visually impaired users">> ELSE <<>>)
  \o (IF TruthyFlag(analysis.closedCaptions.available)
        THEN <<"Deaf and hard-of-hearing users">> ELSE <<>>)
  \o (IF TruthyFlag(analysis.signLanguage.available)
        THEN <<"Sign language users">> ELSE <<>>)

\* suggestEnhancements
suggestEnhancements(movie) ==
  (IF ~TruthyText(movie.narrated_description)
     THEN <<"Generate AI-powered detailed narration">> ELSE <<>>)
  \o <<"Add user-generated accessibility reviews",
       "Implement real-time accessibility feedback",
       "Create accessibility rating system">>

\* genres::text ILIKE '%name%' for a genre name: the names explored are not
\* parts of one another nor of the keys of the stored JSON, so the pattern
\* matches exactly when the name is one of the row's genres; a NULL column
\* matches nothing
GenresTextMatches(genreNames, names) ==
  /\ genreNames # <<>>
  /\ \E i \in DOMAIN genreNames[1] : \E j \in DOMAIN names : genreNames[1][i] = names[j]

\* movie.genres || [] mapped to the names
genreNamesOf(movie) == IF movie.genres = <<>> THEN <<>> ELSE movie.genres[1]

SimilarColumns ==
  {"id", "title", "overview", "audio_description_available",
   "closed_captions_available", "sign_language_available"}

\* the rows of the query of findSimilarAccessibleContent, lines 649-658
SimilarRows(db, movie) ==
  IF genreNamesOf(movie) = <<>> THEN {}
  ELSE {Select(m, SimilarColumns) : m \in
          {n \in TableRows(db) :
             /\ n.id # movie.id
             /\ (TruthyFlag(n.audio_description_available) \/ TruthyFlag(n.closed_captions_available))
             /\ GenresTextMatches(n.genres, genreNamesOf(movie))}}

\* findSimilarAccessibleContent, given the rows in the order the database
\* returned them (at most five)
findSimilarAccessibleContent(similar) ==
  [i \in 1..Min(5, Len(similar)) |->
     [id |-> similar[i].id, title |-> similar[i].title, overview |-> similar[i].overview,
      accessibilityFeatures |->
        [audioDescription |-> similar[i].audio_description_available,
         closedCaptions |-> similar[i].closed_captions_available,
         signLanguage |-> similar[i].sign_language_available]]]

\* the row of SELECT * FROM movies WHERE id = movieId, with its id
analysedRow(db, movieId) ==
  IF queryRow(db, <<movieId>>) = <<>> THEN <<>>
  ELSE <<[id |-> movieId] @@ queryRow(db, <<movieId>>)[1]>>

\* analyzeContentAccessibility: the NotFound of line 223 is thrown inside
\* the try block, so the catch of line 247 turns it into an internal error
analyzeContentAccessibility(r, db, similar) ==
  LET movie == analysedRow(db, r.movieId)
  IN  IF movie = <<>> THEN Raise("internal")
      ELSE LET accessibilityAnalysis == analyzeAccessibilityFeatures(movie[1])
           IN  Ok([movieId |-> r.movieId,
                   accessibilityScore |-> calculateAccessibilityScore(movie[1], accessibilityAnalysis),
                   analysis |-> accessibilityAnalysis,
                   improvements |-> generateAccessibilityImprovements(movie[1], accessibilityAnalysis),
                   recommendations |->
                     [suitableFor |-> determineSuitability(accessibilityAnalysis),
                      alternativeContent |-> findSimilarAccessibleContent(similar),
                      enhancementOptions |-> suggestEnhancements(movie[1])]])

(***************************************************************************)
(* Recommendations                                                         *)
(***************************************************************************)
RecommendationColumns ==
  {"id", "title", "overview", "genres", "audio_description_available",
   "closed_captions_available", "sign_language_available",
   "narrated_description", "vote_average"}

\* the rows of the query of getAccessibleContent, lines 277-304
AccessibleRows(db, accessibilityNeeds, preferredGenres) ==
  {Select(m, RecommendationColumns) : m \in
     {n \in TableRows(db) :
        /\ ("visual_impairment" \in accessibilityNeeds)
             => (TruthyFlag(n.audio_description_available) \/ n.narrated_description # <<>>)
        /\ ("hearing_impairment" \in accessibilityNeeds)
             => (TruthyFlag(n.closed_captions_available) \/ TruthyFlag(n.sign_language_available))
        /\ (preferredGenres # <<>>) => GenresTextMatches(n.genres, preferredGenres)}}

\* buildUserProfile: genrePreferences
genrePreferences == <<"Documentary", "Drama", "Biography">>

\* the confidence of scoreRecommendations, lines 312 and 322-348, 357
recommendationConfidence(movie, favoriteMovieIds, accessibilityNeeds) ==
  Min(50
      + (IF movie.id \in favoriteMovieIds THEN 30 ELSE 0)
      + (IF \E i \in DOMAIN genrePreferences : \E j \in DOMAIN genreNamesOf(movie) :
              genreNamesOf(movie)[j] = genrePreferences[i]
           THEN 20 ELSE 0)
      + (IF "visual_impairment" \in accessibilityNeeds
            /\ (TruthyFlag(movie.audio_description_available) \/ TruthyText(movie.narrated_description))
           THEN 30 ELSE 0)
      + (IF "hearing_impairment" \in accessibilityNeeds
            /\ (TruthyFlag(movie.closed_captions_available) \/ TruthyFlag(movie.sign_language_available))
           THEN 30 ELSE 0),
      100)

\* matchReason: the first reason that applies
recommendationReason(movie, favoriteMovieIds, accessibilityNeeds) ==
  IF movie.id \in favoriteMovieIds THEN "Previously favorited similar content"
  ELSE IF \E i \in DOMAIN genrePreferences : \E j \in DOMAIN genreNamesOf(movie) :
            genreNamesOf(movie)[j] = genrePreferences[i]
    THEN "Matches your preferred genres"
  ELSE IF "visual_impairment" \in accessibilityNeeds
          /\ (TruthyFlag(movie.audio_description_available) \/ TruthyText(movie.narrated_description))
    THEN "Has audio descriptions for visual accessibility"
  ELSE IF "hearing_impairment" \in accessibilityNeeds
          /\ (TruthyFlag(movie.closed_captions_available) \/ TruthyFlag(movie.sign_language_available))
    THEN "Has captions or sign language for hearing accessibility"
  ELSE "General recommendation based on ratings"

\* scoreRecommendations
scoreRecommendations(content, favoriteMovieIds, accessibilityNeeds) ==
  [i \in DOMAIN content |->
     [movieId |-> content[i].id,
      title |-> content[i].title,
      overview |-> content[i].overview,
      accessibilityScore |-> recommendationAccessibilityScore(content[i]),
      matchReason |-> recommendationReason(content[i], favoriteMovieIds, accessibilityNeeds),
      confidence |-> recommendationConfidence(content[i], favoriteMovieIds, accessibilityNeeds),
      accessibilityFeatures |->
        [audioDescription |-> content[i].audio_description_available,
         closedCaptions |-> content[i].closed_captions_available,
         signLanguage |-> content[i].sign_language_available,
         aiNarration |-> TruthyText(content[i].narrated_description)]]]

\* Array.prototype.filter
RECURSIVE Filter(_, _)
Filter(items, keep) ==
  IF items = <<>> THEN <<>>
  ELSE (IF keep[1] THEN <<items[1]>> ELSE <<>>) \o Filter(Tail(items), Tail(keep))

\* determinePersonalizationFactors
determinePersonalizationFactors(favoriteMovieIds, accessibilityNeeds) ==
  (IF favoriteMovieIds # {} THEN <<"Previous favorites and ratings">> ELSE <<>>)
  \o <<"Genre preferences">>
  \o (IF accessibilityNeeds # {} THEN <<"Accessibility requirements">> ELSE <<>>)
  \o <<"Audio description preference", "Content popularity and ratings">>

\* getPersonalizedRecommendations, given the rows of getAccessibleContent in
\* the order the database returned them, the user's favourite ids
\* (user_favorites) and the ids the user rated (user_ratings)
getPersonalizedRecommendations(r, accessibleContent, favoriteMovieIds, watchedMovies) ==
  LET scored == scoreRecommendations(accessibleContent, favoriteMovieIds, r.accessibilityNeeds)
      filtered == IF r.excludeWatched = <<FALSE>> THEN scored
                  ELSE Filter(scored, [i \in DOMAIN scored |-> scored[i].movieId \notin watchedMovies])
      keyed == [i \in DOMAIN filtered |->
                  [key |-> <<filtered[i].confidence * filtered[i].accessibilityScore, 0>>,
                   item |-> filtered[i]]]
      sorted == SortByKey(keyed)
      limit == IF r.limit = <<>> THEN 10 ELSE r.limit[1]
  IN  Ok([recommendations |-> Slice([i \in DOMAIN sorted |-> sorted[i].item], limit),
          totalRecommendations |-> Len(filtered),
          personalizationFactors |->
            determinePersonalizationFactors(favoriteMovieIds, r.accessibilityNeeds),
          nextUpdateTime |-> "24 hours from now"])

(***************************************************************************)
(* Smart search                                                            *)
(***************************************************************************)
\* interpretSearchQuery: interpretations, in the order of the object literal
interpretations == <<
  [pattern |-> <<"m","o","v","i","e","s"," ","f","o","r"," ","b","l","i","n","d"," ","p","e","o","p","l","e">>,
   interpretation |-> <<"m","o","v","i","e","s"," ","w","i","t","h"," ","a","u","d","i","o"," ","d","e","s","c","r","i","p","t","i","o","n","s">>],
  [pattern |-> <<"d","e","a","f"," ","f","r","i","e","n","d","l","y"," ","m","o","v","i","e","s">>,
   interpretation |-> <<"m","o","v","i","e","s"," ","w","i","t","h"," ","c","l","o","s","e","d"," ","c","a","p","t","i","o","n","s"," ","a","n","d"," ","s","i","g","n"," ","l","a","n","g","u","a","g","e">>],
  [pattern |-> <<"a","c","c","e","s","s","i","b","l","e"," ","d","o","c","u","m","e","n","t","a","r","i","e","s">>,
   interpretation |-> <<"d","o","c","u","m","e","n","t","a","r","i","e","s"," ","w","i","t","h"," ","c","o","m","p","r","e","h","e","n","s","i","v","e"," ","a","c","c","e","s","s","i","b","i","l","i","t","y"," ","f","e","a","t","u","r","e","s">>],
  [pattern |-> <<"n","a","t","u","r","e"," ","s","h","o","w","s"," ","w","i","t","h"," ","n","a","r","r","a","t","i","o","n">>,
   interpretation |-> <<"n","a","t","u","r","e"," ","d","o","c","u","m","e","n","t","a","r","i","e","s"," ","w","i","t","h"," ","a","u","d","i","o"," ","d","e","s","c","r","i","p","t","i","o","n","s">>] >>

RECURSIVE Interpret(_, _, _)
\* the loop of lines 410-414 from entry i on
Interpret(query, lowerQuery, i) ==
  IF i > Len(interpretations) THEN query
  ELSE IF Includes(lowerQuery, interpretations[i].pattern)
         THEN interpretations[i].interpretation
         ELSE Interpret(query, lowerQuery, i + 1)

interpretSearchQuery(query) == Interpret(query, ToLowerCase(query), 1)

\* the column list of the three search queries: narrated_description is not
\* among them
SearchColumns ==
  {"id", "title", "overview", "vote_average", "audio_description_available",
   "closed_captions_available", "sign_language_available"}

\* the result mapping shared by performExactSearch, performSemanticSearch
\* and performAIEnhancedSearch, for rows in the order the database returned
\* them
searchResults(results, relevanceScore, explanation) ==
  [i \in DOMAIN results |->
     [movieId |-> results[i].id,
      title |-> results[i].title,
      overview |-> results[i].overview,
      relevanceScore |-> relevanceScore,
      accessibilityScore |-> calculateMovieAccessibilityScore(results[i]),
      explanation |-> explanation]]

performExactSearch(results) == searchResults(results, 90, "Direct title or description match")

performSemanticSearch(results) == searchResults(results, 70, "Semantic content match")

performAIEnhancedSearch(results) == searchResults(results, 80, "AI-enhanced contextual match")

\* results.map(r => ({...r, matchType}))
withMatchType(results, matchType) ==
  [i \in DOMAIN results |-> [matchType |-> matchType] @@ results[i]]

RECURSIVE removeDuplicateResults(_, _)
\* removeDuplicateResults, seen being the ids met so far
removeDuplicateResults(results, seen) ==
  IF results = <<>> THEN <<>>
  ELSE IF results[1].movieId \in seen THEN removeDuplicateResults(Tail(results), seen)
  ELSE <<results[1]>> \o removeDuplicateResults(Tail(results), seen \cup {results[1].movieId})

\* priorityWeights[priority] || 0.3
priorityWeight(priority) ==
  IF priority = "low" THEN 10 ELSE IF priority = "high" THEN 50 ELSE 30

\* the rounding of relevanceScore + accessibilityScore * weight in double
\* precision: how many units in the last place the sum lies above (+1) or
\* below (-1) the double nearest to the exact sum
finalScoreRounding(relevanceScore, accessibilityScore, weight) ==
  LET up == {<<90, 40, 10>>, <<90, 50, 10>>, <<90, 80, 30>>, <<80, 20, 10>>,
             <<80, 20, 30>>, <<80, 30, 10>>, <<80, 30, 50>>, <<80, 40, 10>>,
             <<80, 50, 10>>, <<80, 50, 30>>, <<80, 60, 10>>, <<80, 80, 10>>,
             <<80, 80, 50>>}
      down == {<<70, 20, 50>>, <<70, 30, 30>>, <<70, 40, 50>>, <<70, 60, 30>>,
               <<70, 70, 10>>, <<70, 70, 30>>, <<70, 70, 50>>, <<70, 100, 10>>}
      k == <<relevanceScore, accessibilityScore, weight>>
  IN  IF k \in up THEN 1 ELSE IF k \in down THEN -1 ELSE 0

\* finalScore: the exact sum in ten-thousandths, then its rounding
finalScoreOf(result, weight) ==
  <<result.relevanceScore * 100 + result.accessibilityScore * weight,
    finalScoreRounding(result.relevanceScore, result.accessibilityScore, weight)>>

\* applyAccessibilityPrioritization
applyAccessibilityPrioritization(results, priority) ==
  LET weight == priorityWeight(priority)
      keyed == [i \in DOMAIN results |->
                  [key |-> finalScoreOf(results[i], weight),
                   item |-> [finalScore |-> finalScoreOf(results[i], weight)] @@ results[i]]]
      sorted == SortByKey(keyed)
  IN  [i \in DOMAIN sorted |-> sorted[i].item]

\* generateSearchInsights
generateSearchInsights(originalQuery, interpretedQuery, results) ==
  [interpretedQuery |-> interpretedQuery,
   suggestedRefinements |->
     <<"Add \"with audio description\" for better accessibility",
       "Try \"documentary\" for educational content",
       "Search for specific genres like \"nature\" or \"history\"">>,
   accessibilityMatches |->
     Cardinality({i \in DOMAIN results : results[i].accessibilityScore > 50})]

\* smartSearch, given the rows each of the three queries returned
smartSearch(r, exactRows, semanticRows, aiRows) ==
  LET useAI == r.useAI # <<FALSE>>
      includeSemanticSearch == r.includeSemanticSearch # <<FALSE>>
      accessibilityPriority == IF r.accessibilityPriority = <<>> THEN "medium"
                               ELSE r.accessibilityPriority[1]
      interpretedQuery == IF useAI THEN interpretSearchQuery(r.query) ELSE r.query
      exactMatches == performExactSearch(exactRows)
      semanticMatches == IF includeSemanticSearch THEN performSemanticSearch(semanticRows) ELSE <<>>
      aiEnhancedMatches == IF useAI THEN performAIEnhancedSearch(aiRows) ELSE <<>>
      allResults == withMatchType(exactMatches, "exact")
                    \o withMatchType(semanticMatches, "semantic")
                    \o withMatchType(aiEnhancedMatches, "ai_enhanced")
      uniqueResults == removeDuplicateResults(allResults, {})
      prioritizedResults == applyAccessibilityPrioritization(uniqueResults, accessibilityPriority)
  IN  Ok([results |-> Slice(prioritizedResults, 50),
          searchInsights |-> generateSearchInsights(r.query, interpretedQuery, prioritizedResults),
          totalResults |-> Len(prioritizedResults)])

(***************************************************************************)
(* Assistant queries (unnamed/part_009): processAIQuery.  The providers in *)
(* the source are stand-ins that answer from fixed responses and ignore    *)
(* the prompt, so the prompt built from the context and the conversation   *)
(* history is not kept.  A request's query is <<>> when the caller passed  *)
(* none and <<text>> otherwise.                                            *)
(***************************************************************************)
\* processWithAIProvider: the response of the provider's stand-in; the
\* OpenAI one (also the default of the switch) picks one of two at random
processWithAIProvider(provider, pick) ==
  CASE provider = "anthropic" ->
         [response |-> "I understand you're looking for accessible content. Let me help you navigate our collection with detailed audio descriptions.",
          action |-> "navigation_assistance", data |-> <<>>, confidence |-> 88,
          followUpQuestions |->
            <<"Would you like me to read movie descriptions aloud?",
              "Should I focus on content with professional narration?",
              "Do you prefer content with sign language interpretation?">>]
    [] provider = "gemini" ->
         [response |-> "I can provide comprehensive assistance with finding and enjoying accessible media content. What would you like to explore?",
          action |-> "general_assistance", data |-> <<>>, confidence |-> 87,
          followUpQuestions |->
            <<"Are you new to accessible media?",
              "Do you have specific accessibility requirements?",
              "Would you like a guided tour of our features?">>]
    [] provider = "perplexity" ->
         [response |-> "I can search for the most current accessible content and provide real-time information about availability and features.",
          action |-> "search_assistance", data |-> <<>>, confidence |-> 92,
          followUpQuestions |->
            <<"Are you looking for newly released content?",
              "Do you want information about upcoming accessible releases?",
              "Should I check for the latest accessibility feature updates?">>]
    [] OTHER ->
         IF pick = 0
           THEN [response |-> "I can help you find accessible movies with audio descriptions and closed captions. What type of content are you interested in?",
                 action |-> "search_assistance", data |-> <<>>, confidence |-> 90,
                 followUpQuestions |->
                   <<"What genre do you prefer?",
                     "Do you need specific accessibility features?",
                     "Are you looking for recent releases?">>]
           ELSE [response |-> "Based on your preferences, I recommend exploring our documentary section. Many documentaries have excellent accessibility features.",
                 action |-> "recommendation",
                 data |-> <<[category |-> "documentaries", reason |-> "accessibility_features"]>>,
                 confidence |-> 85,
                 followUpQuestions |->
                   <<"Would you like nature documentaries?",
                     "Are you interested in historical content?",
                     "Do you prefer shorter or longer documentaries?">>]

\* analyzeUserIntent, on a query that is a string
analyzeUserIntent(query) ==
  LET queryLower == ToLowerCase(query)
      Has(keyword) == Includes(queryLower, keyword)
  IN  IF Has(<<"s","e","a","r","c","h">>) \/ Has(<<"f","i","n","d">>) \/ Has(<<"l","o","o","k"," ","f","o","r">>) THEN "search"
      ELSE IF Has(<<"r","e","c","o","m","m","e","n","d">>) \/ Has(<<"s","u","g","g","e","s","t">>) \/ Has(<<"w","h","a","t"," ","s","h","o","u","l","d">>) THEN "recommendation"
      ELSE IF Has(<<"h","e","l","p">>) \/ Has(<<"h","o","w"," ","t","o">>) \/ Has(<<"n","a","v","i","g","a","t","e">>) THEN "help"
      ELSE IF Has(<<"a","c","c","e","s","s","i","b","i","l","i","t","y">>) \/ Has(<<"a","u","d","i","o"," ","d","e","s","c","r","i","p","t","i","o","n">>) \/ Has(<<"c","a","p","t","i","o","n","s">>) THEN "accessibility"
      ELSE IF Has(<<"p","l","a","y">>) \/ Has(<<"w","a","t","c","h">>) \/ Has(<<"s","t","r","e","a","m">>) THEN "playback"
      ELSE "general"

\* predictNextActions
predictNextActions(intent) ==
  CASE intent = "search" ->
         <<Predicted("apply_filters", "Apply accessibility filters to search results", 80),
           Predicted("view_details", "View detailed information about a movie", 70),
           Predicted("play_content", "Start watching selected content", 60)>>
    [] intent = "recommendation" ->
         <<Predicted("view_recommendations", "Browse personalized recommendations", 90),
           Predicted("save_to_favorites", "Add recommended content to favorites", 70),
           Predicted("adjust_preferences", "Modify recommendation preferences", 50)>>
    [] intent = "help" ->
         <<Predicted("access_tutorials", "View accessibility tutorials", 80),
           Predicted("adjust_settings", "Modify accessibility settings", 70),
           Predicted("contact_support", "Get additional help from support", 40)>>
    [] intent = "accessibility" ->
         <<Predicted("configure_features", "Set up accessibility features", 90),
           Predicted("test_features", "Test accessibility settings", 80),
           Predicted("browse_accessible_content", "Find content with specific features", 70)>>
    [] intent = "playback" ->
         <<Predicted("enable_audio_description", "Turn on audio descriptions", 90),
           Predicted("enable_captions", "Enable closed captions", 80),
           Predicted("adjust_playback_speed", "Modify playback speed for better comprehension", 60)>>
    [] OTHER ->
         <<Predicted("explore_content", "Browse available content", 60),
           Predicted("get_help", "Access help and tutorials", 50)>>

\* generateContextualSuggestions
generateContextualSuggestions(intent) ==
  CASE intent = "search" ->
         <<"Try searching for 'audio description movies'", "Filter by accessibility features",
           "Browse by genre with accessibility options", "Use voice search for hands-free browsing">>
    [] intent = "recommendation" ->
         <<"Explore documentaries with audio descriptions", "Check out highly-rated accessible movies",
           "Discover content in your preferred genres", "Find movies with sign language interpretation">>
    [] intent = "help" ->
         <<"Learn about keyboard navigation shortcuts", "Set up voice commands for easier control",
           "Configure screen reader compatibility", "Adjust text size and contrast settings">>
    [] intent = "accessibility" ->
         <<"Test audio description settings", "Configure closed caption preferences",
           "Set up braille display options", "Customize voice navigation commands">>
    [] intent = "playback" ->
         <<"Enable audio descriptions before playing", "Check caption language options",
           "Adjust volume and audio balance", "Use keyboard shortcuts for playback control">>
    [] OTHER ->
         <<"Ask me about accessible movies", "Get help with navigation",
           "Explore accessibility features", "Find content recommendations">>

fallbackResponse_Rethrown == Raise("internal")

\* the catch block of processAIQuery, lines 87-101
fallbackResponse ==
  Ok([response |-> "I'm having trouble processing your request right now. Please try rephrasing your question or check your AI settings.",
      confidence |-> 10,
      suggestions |->
        <<"Try asking about movie recommendations", "Search for accessible content",
          "Ask about navigation help">>,
      predictedNextActions |-> <<>>])

\* processWithAIProvider is called first; analyzeUserIntent then calls
\* query.toLowerCase(), a TypeError when the query is no string, which the
\* catch block answers
processAIQuery(r, pick) ==
  LET aiProvider == IF r.aiProvider = <<>> THEN "openai" ELSE r.aiProvider[1]
      aiResponse == processWithAIProvider(aiProvider, pick)
  IN  IF r.query = <<>> THEN fallbackResponse
      ELSE LET intent == analyzeUserIntent(r.query[1])
           IN  Ok([response |-> aiResponse.response,
                   action |-> aiResponse.action,
                   data |-> aiResponse.data,
                   suggestions |-> generateContextualSuggestions(intent),
                   speechText |-> aiResponse.response,
                   confidence |-> aiResponse.confidence,
                   followUpQuestions |-> aiResponse.followUpQuestions,
                   predictedNextActions |-> predictNextActions(intent)])

\* queries explored: none, the empty one, one per intent and one without
AgentQueries ==
  { <<>>, <<<<>>>>, <<<<"F","i","n","d"," ","a"," ","m","o","v","i","e">>>>, <<<<"w","h","a","t"," ","s","h","o","u","l","d"," ","I"," ","s","e","e">>>>, <<<<"H","e","l","p">>>>,
    <<<<"c","a","p","t","i","o","n","s">>>>, <<<<"w","a","t","c","h">>>>, <<<<"h","e","l","l","o">>>> }

AgentProviders == {<<>>, <<"openai">>, <<"anthropic">>, <<"gemini">>, <<"perplexity">>}

\* one call of processAIQuery; pick is floor(Math.random() * 2)
ProcessAIQuery(query, aiProvider) ==
  /\ AIIdle
  /\ \E r \in {[query |-> query, aiProvider |-> aiProvider]} :
     \E pick \in {0, 1} :
       ai' = [endpoint |-> "processAIQuery", req |-> r, res |-> processAIQuery(r, pick)]
  /\ UNCHANGED <<voiceVars, brailleVars, restVars>>

(***************************************************************************)
(* The assistant endpoints as actions                                      *)
(***************************************************************************)
\* a movieId of analyzeContentAccessibility: the ids that may hold a row
\* and one that never does
AnalysisIds == CatalogueIds \cup {3}

\* accessibilityNeeds of a recommendations request (only membership and
\* emptiness are read)
AccessibilityNeeds == SUBSET {"visual_impairment", "hearing_impairment"}

\* queries of a smart search: one without and one with an interpretation
SearchQueries == { <<"F","r","e","e"," ","S","o","l","o">>, <<"M","o","v","i","e","s"," ","f","o","r"," ","b","l","i","n","d"," ","p","e","o","p","l","e">> }

\* what a search query with a text pattern can return: the selected columns
\* of any of the table's rows, ordered by average
SearchRows(db) ==
  UNION {OrderedByAverage({Select(m, SearchColumns) : m \in S}) : S \in SUBSET TableRows(db)}

AnalyzeContentAccessibility(movieId) ==
  /\ AIIdle
  /\ \E r \in {[movieId |-> movieId]} :
     \E similar \in (IF analysedRow(movies, movieId) = <<>> THEN {<<>>}
                     ELSE OrderedByAverage(SimilarRows(movies, analysedRow(movies, movieId)[1]))) :
       ai' = [endpoint |-> "analyzeContentAccessibility", req |-> r,
              res |-> analyzeContentAccessibility(r, movies, similar)]
  /\ UNCHANGED <<voiceVars, brailleVars, restVars>>

GetPersonalizedRecommendations(accessibilityNeeds, preferredGenres, excludeWatched, limit) ==
  /\ AIIdle
  /\ \E r \in {[userId |-> "demo-user", limit |-> limit,
                 accessibilityNeeds |-> accessibilityNeeds,
                 preferredGenres |-> preferredGenres,
                 excludeWatched |-> excludeWatched]} :
     \E favoriteMovieIds \in SUBSET CatalogueIds :
     \E watchedMovies \in (IF excludeWatched = <<FALSE>> THEN {{}} ELSE SUBSET CatalogueIds) :
     \E accessibleContent \in
          OrderedByAverage(AccessibleRows(movies, accessibilityNeeds, preferredGenres)) :
       ai' = [endpoint |-> "getPersonalizedRecommendations", req |-> r,
              res |-> getPersonalizedRecommendations(r, accessibleContent,
                                                     favoriteMovieIds, watchedMovies)]
  /\ UNCHANGED <<voiceVars, brailleVars, restVars>>

SmartSearch(query, useAI, includeSemanticSearch, accessibilityPriority) ==
  /\ AIIdle
  /\ \E r \in {[query |-> query, useAI |-> useAI,
                 includeSemanticSearch |-> includeSemanticSearch,
                 accessibilityPriority |-> accessibilityPriority]} :
     \E exactRows \in SearchRows(movies) :
     \E semanticRows \in (IF includeSemanticSearch = <<FALSE>> THEN {<<>>} ELSE SearchRows(movies)) :
     \E aiRows \in (IF useAI = <<FALSE>> THEN {<<>>} ELSE SearchRows(movies)) :
       ai' = [endpoint |-> "smartSearch", req |-> r,
              res |-> smartSearch(r, exactRows, semanticRows, aiRows)]
  /\ UNCHANGED <<voiceVars, brailleVars, restVars>>

\* the response (or the error) reaches the caller
AIReturn ==
  /\ ~AIIdle
  /\ ai' = NoCall
  /\ UNCHANGED <<voiceVars, brailleVars, restVars>>

InitAI ==
  /\ movies \in [CatalogueIds -> RowOptions(CatalogueRows)]
  /\ VoiceIdle
  /\ BrailleIdle
  /\ AIIdle
  /\ RestIdle

NextAI ==
  \/ \E movieId \in AnalysisIds : AnalyzeContentAccessibility(movieId)
  \/ \E accessibilityNeeds \in AccessibilityNeeds, preferredGenres \in {<<>>, <<"Drama">>},
        excludeWatched \in {<<>>, <<FALSE>>}, limit \in {<<>>, <<1>>} :
       GetPersonalizedRecommendations(accessibilityNeeds, preferredGenres, excludeWatched, limit)
  \/ \E query \in SearchQueries, useAI \in {<<>>, <<FALSE>>},
        includeSemanticSearch \in {<<>>, <<FALSE>>},
        accessibilityPriority \in {<<>>, <<"low">>, <<"high">>} :
       SmartSearch(query, useAI, includeSemanticSearch, accessibilityPriority)
  \/ \E query \in AgentQueries, aiProvider \in AgentProviders :
       ProcessAIQuery(query, aiProvider)
  \/ AIReturn
  \/ /\ AIIdle
     /\ \E id \in CatalogueIds, row \in RowOptions(CatalogueRows) : StoreWrite(id, row)

SpecAI == InitAI /\ [][NextAI]_vars


(***************************************************************************)
(* Vocabulary of the assistant claims                                      *)
(***************************************************************************)
Answered(endpoint) == ai.endpoint = endpoint /\ ai.res.kind = "ok"

\* the stored row a result or recommendation is about
StoredRow(movieId) == movies[movieId][1]

\* 0.3 for audio description, 0.3 for closed captions, 0.2 for sign
\* language, 0.2 for a narration that is present, at most 1 (in hundredths)
WeightedSum(row) ==
  LET sum == (IF AttributeHolds(row, "audio description") THEN 30 ELSE 0)
             + (IF AttributeHolds(row, "closed captions") THEN 30 ELSE 0)
             + (IF AttributeHolds(row, "sign language interpretation") THEN 20 ELSE 0)
             + (IF AttributeHolds(row, "detailed AI narration") THEN 20 ELSE 0)
  IN  IF sum > 100 THEN 100 ELSE sum

(***************************************************************************)
(* C11.  The accessibility score of an item is 0.3 for audio description   *)
(* plus 0.3 for closed captions plus 0.2 for sign language plus 0.2 for a  *)
(* narration that is present, at most 1, on every path that computes it:   *)
(* each recommendation and each smart-search result, whatever its match    *)
(* type, carries that score of the stored item it is about.                *)
(***************************************************************************)
C11_ScoreIsWeightedSum ==
  /\ Answered("getPersonalizedRecommendations") =>
       \A i \in DOMAIN ai.res.recommendations :
         ai.res.recommendations[i].accessibilityScore
           = WeightedSum(StoredRow(ai.res.recommendations[i].movieId))
  /\ Answered("smartSearch") =>
       \A i \in DOMAIN ai.res.results :
         ai.res.results[i].accessibilityScore
           = WeightedSum(StoredRow(ai.res.results[i].movieId))

\* the part of C11 about recommendation scoring alone
C11_RecommendationScoreIsWeightedSum ==
  Answered("getPersonalizedRecommendations") =>
    \A i \in DOMAIN ai.res.recommendations :
      ai.res.recommendations[i].accessibilityScore
        = WeightedSum(StoredRow(ai.res.recommendations[i].movieId))

\* a recommendation of an item with all four attributes scores 1.0
C11_RecommendationWitness ==
  /\ Answered("getPersonalizedRecommendations")
  /\ \E i \in DOMAIN ai.res.recommendations :
       /\ ai.res.recommendations[i].accessibilityScore = 100
       /\ \A f \in {FeatureOrder[k] : k \in DOMAIN FeatureOrder} :
            AttributeHolds(StoredRow(ai.res.recommendations[i].movieId), f)

(***************************************************************************)
(* C14.  Every accessibility score the program returns lies in [0,1]: the  *)
(* score of each recommendation, of each smart-search result, and of the   *)
(* analyzeContentAccessibility response.                                   *)
(***************************************************************************)
UnitInterval(score) == 0 <= score /\ score <= 100

C14_ScoresInUnitInterval ==
  /\ Answered("getPersonalizedRecommendations") =>
       \A i \in DOMAIN ai.res.recommendations :
         UnitInterval(ai.res.recommendations[i].accessibilityScore)
  /\ Answered("smartSearch") =>
       \A i \in DOMAIN ai.res.results : UnitInterval(ai.res.results[i].accessibilityScore)
  /\ Answered("analyzeContentAccessibility") => UnitInterval(ai.res.accessibilityScore)

\* the part of C14 about recommendations and smart-search results
C14_ListedScoresInUnitInterval ==
  /\ Answered("getPersonalizedRecommendations") =>
       \A i \in DOMAIN ai.res.recommendations :
         UnitInterval(ai.res.recommendations[i].accessibilityScore)
  /\ Answered("smartSearch") =>
       \A i \in DOMAIN ai.res.results : UnitInterval(ai.res.results[i].accessibilityScore)


(***************************************************************************)
(* C12.  processAIQuery never lets a failure reach its caller: every call  *)
(* returns a response, and when a step of the call threw (here: the intent *)
(* analysis that follows the provider call, on a query that is no string)  *)
(* the response is the fixed fallback text with confidence 0.1 and an      *)
(* empty predictedNextActions list.                                        *)
(***************************************************************************)
\* the call in progress is one in which a step throws
StepThrows == ai.endpoint = "processAIQuery" /\ ai.req.query = <<>>

C12_FailureGivesFallback ==
  (ai.endpoint = "processAIQuery") =>
    /\ ai.res.kind = "ok"
    /\ StepThrows =>
         /\ ai.res.response = "I'm having trouble processing your request right now. Please try rephrasing your question or check your AI settings."
         /\ ai.res.confidence = 10
         /\ ai.res.predictedNextActions = <<>>

C12_Witness ==
  /\ StepThrows
  /\ ai.req.aiProvider = <<"anthropic">>
  /\ ai.res.kind = "ok"
  /\ ai.res.confidence = 10


(***************************************************************************)
(* C13.  As claimed: two different lower-case texts built from the mapped  *)
(* characters (a-z, 0-9, space and the listed punctuation) never have the  *)
(* same Grade 1 output.                                                    *)
(***************************************************************************)
\* the characters with an entry in the Grade 1 table
MappedCharacters == {characterCells[i].key[1] : i \in DOMAIN characterCells}

\* the texts explored that are built from mapped characters
MappedTexts == {t \in Texts(MaxLen) : \A i \in DOMAIN t : t[i] \in MappedCharacters}

\* the Grade 1 output of every such text at every line width
Grade1Outputs ==
  {<<t, c, convertToBraille(t, "1", c)>> : t \in MappedTexts, c \in 1..MaxCells}

\* the texts with the same Grade 1 output as the text converted
SameOutput ==
  {o[1] : o \in {p \in Grade1Outputs : p[2] = brCells /\ p[3] = brOut}}

C13_Grade1Lossless ==
  (ConvertedGrade1 /\ brText \in MappedTexts) => SameOutput = {brText}

(***************************************************************************)
(* C13, amended.  Two lower-case texts built from the mapped characters    *)
(* have the same Grade 1 output exactly when they are equal up to the two  *)
(* pairs of characters that share a cell: "(" with ")" and "?" with the    *)
(* double quote.  Texts that differ in any other way never collide.        *)
(***************************************************************************)
\* a text with each character replaced by the first of its pair
Paired(text) ==
  [i \in DOMAIN text |->
     IF text[i] = ")" THEN "(" ELSE IF text[i] = "\"" THEN "?" ELSE text[i]]

C13_Grade1LosslessUpToPairs ==
  (ConvertedGrade1 /\ brText \in MappedTexts) =>
    SameOutput = {other \in MappedTexts : Paired(other) = Paired(brText)}

C13_Witness ==
  /\ ConvertedGrade1
  /\ brText = <<"(", "7", ")">>
  /\ brCells = 2
  /\ <<")", "7", "(">> \in SameOutput
  /\ <<"(", "a", ")">> \notin SameOutput


(***************************************************************************)
(* C15.  The intent classifier is first-match in the table's order         *)
(* (search, play, pause, navigate, help, describe, filter, recommend): an  *)
(* utterance gets the earliest intent of which it contains a trigger, with *)
(* confidence 0.8, and unknown with confidence 0 when it contains none; a  *)
(* text containing "find me something" is classified search.               *)
(***************************************************************************)
IntentOrder == <<"search", "play", "pause", "navigate", "help", "describe",
                 "filter", "recommend">>

\* the triggers the table lists for an intent
TriggersOf(name) ==
  UNION {{intents[i].keywords[k] : k \in DOMAIN intents[i].keywords} :
           i \in {j \in DOMAIN intents : intents[j].intent = name}}

\* positions in the claimed order of the intents the utterance triggers
Triggered == {i \in DOMAIN IntentOrder : \E k \in TriggersOf(IntentOrder[i]) : Says(k)}

C15_FirstMatchInTableOrder ==
  Called =>
    LET triggered == Triggered IN
    /\ triggered = {} =>
          commandIntent.intent = "unknown" /\ commandIntent.confidence = 0
    /\ \A i \in triggered :
          (\A j \in triggered : i <= j) =>
             commandIntent.intent = IntentOrder[i] /\ commandIntent.confidence = 80
    /\ Says(<<"f","i","n","d"," ","m","e"," ","s","o","m","e","t","h","i","n","g">>) => commandIntent.intent = "search"

C15_Witness ==
  /\ Called
  /\ Says(<<"f","i","n","d"," ","m","e"," ","s","o","m","e","t","h","i","n","g">>)
  /\ Triggered = {1, 8}
  /\ commandIntent.intent = "search"
  /\ commandIntent.confidence = 80

C15_WitnessNone ==
  /\ Called
  /\ norm = <<"x","y","z","z","y">>
  /\ Triggered = {}
  /\ commandIntent.intent = "unknown"


(***************************************************************************)
(* C16.  As claimed: in the player context with a movieId, every command   *)
(* containing "play" or "start" yields action play; every command          *)
(* containing "pause" or "stop" but neither "play" nor "start" yields      *)
(* action pause; a command containing none of play, start, pause, stop,    *)
(* volume, caption, subtitle, describe, narrate yields action unknown.     *)
(***************************************************************************)
Action(name) == res.kind = "ok" /\ res.action = name

SaysAny(phrases) == \E p \in phrases : Says(p)

PlayerCall == Called /\ Context = "player" /\ HasId

C16_PlayerRoutesBySubstring ==
  PlayerCall =>
    /\ SaysAny({<<"p","l","a","y">>, <<"s","t","a","r","t">>}) => Action("play")
    /\ (SaysAny({<<"p","a","u","s","e">>, <<"s","t","o","p">>}) /\ ~SaysAny({<<"p","l","a","y">>, <<"s","t","a","r","t">>}))
         => Action("pause")
    /\ ~SaysAny({<<"p","l","a","y">>, <<"s","t","a","r","t">>, <<"p","a","u","s","e">>, <<"s","t","o","p">>, <<"v","o","l","u","m","e">>,
                 <<"c","a","p","t","i","o","n">>, <<"s","u","b","t","i","t","l","e">>, <<"d","e","s","c","r","i","b","e">>, <<"n","a","r","r","a","t","e">>})
         => Action("unknown")

(***************************************************************************)
(* C16, amended.  In the player context with a movieId, play and pause are *)
(* decided by the classified intent: every command that contains a play    *)
(* trigger (play, start, watch, begin, stream) and no search trigger       *)
(* (find, search, look for, show me, get, discover) yields action play;    *)
(* every command that contains a pause trigger (pause, stop, halt, freeze) *)
(* and no search or play trigger yields action pause; a command that is    *)
(* classified neither play nor pause and contains none of volume, caption, *)
(* subtitle, describe, narrate yields action unknown.                      *)
(***************************************************************************)
ClassifiedPlay ==
  ~SaysAny(TriggersOf("search")) /\ SaysAny(TriggersOf("play"))

ClassifiedPause ==
  /\ ~SaysAny(TriggersOf("search")) /\ ~SaysAny(TriggersOf("play"))
  /\ SaysAny(TriggersOf("pause"))

C16_PlayerRoutesByIntent ==
  PlayerCall =>
    LET play == ClassifiedPlay
        pause == ClassifiedPause
    IN
    /\ play => Action("play")
    /\ pause => Action("pause")
    /\ ( /\ ~play /\ ~pause
         /\ ~SaysAny({<<"v","o","l","u","m","e">>, <<"c","a","p","t","i","o","n">>, <<"s","u","b","t","i","t","l","e">>, <<"d","e","s","c","r","i","b","e">>, <<"n","a","r","r","a","t","e">>}) )
         => Action("unknown")

\* "stop watching" starts playback: watch is a play trigger
C16_Witness ==
  /\ PlayerCall
  /\ norm = <<"s","t","o","p"," ","w","a","t","c","h","i","n","g">>
  /\ ClassifiedPlay
  /\ Action("play")

\* a search trigger keeps "play" from playing
C16_WitnessSearch ==
  /\ PlayerCall
  /\ norm = <<"f","i","n","d"," ","p","l","a","y">>
  /\ Action("unknown")


(***************************************************************************)
(* C17.  In the details context with an existing row, every command        *)
(* containing "describe" or "tell me about" yields action read_description *)
(* with data.description the row's overview, and a command containing      *)
(* "rating" or "how good" but none of describe, tell me about,             *)
(* accessibility, features yields action rating.                           *)
(***************************************************************************)
DetailsCall == Called /\ Context = "details" /\ HasId /\ Referenced # <<>>

C17_DetailsRoutesBySubstring ==
  DetailsCall =>
    /\ SaysAny({<<"d","e","s","c","r","i","b","e">>, <<"t","e","l","l"," ","m","e"," ","a","b","o","u","t">>}) =>
          Action("read_description") /\ res.data.description = Referenced[1].overview
    /\ ( /\ SaysAny({<<"r","a","t","i","n","g">>, <<"h","o","w"," ","g","o","o","d">>})
         /\ ~SaysAny({<<"d","e","s","c","r","i","b","e">>, <<"t","e","l","l"," ","m","e"," ","a","b","o","u","t">>, <<"a","c","c","e","s","s","i","b","i","l","i","t","y">>, <<"f","e","a","t","u","r","e","s">>}) )
         => Action("rating")

\* the utterance is classified with the named intent
ClassifiedAs(name) ==
  \E i \in Triggered : IntentOrder[i] = name /\ \A j \in Triggered : i <= j

\* the details entry for descriptions matches
DescriptionEntry == ClassifiedAs("describe") \/ Says(<<"t","e","l","l"," ","m","e"," ","a","b","o","u","t">>)

\* C17, what the handler does: the description entry is taken by the
\* classified intent describe or by "tell me about"; the rating entry, when
\* no earlier entry matches, answers with action rating for a row with a
\* rating average and fails for a row without one
C17_DetailsRoutesByIntent ==
  DetailsCall =>
    /\ DescriptionEntry =>
          Action("read_description") /\ res.data.description = Referenced[1].overview
    /\ ( /\ SaysAny({<<"r","a","t","i","n","g">>, <<"h","o","w"," ","g","o","o","d">>})
         /\ ~DescriptionEntry /\ ~SaysAny({<<"a","c","c","e","s","s","i","b","i","l","i","t","y">>, <<"f","e","a","t","u","r","e","s">>}) )
         => IF Referenced[1].vote_average = <<>>
              THEN res = Raise("internal")
              ELSE Action("rating")

\* "what is the rating" is read as a request for the description
C17_WhatIsTheRating ==
  /\ DetailsCall
  /\ norm = <<"w","h","a","t"," ","i","s"," ","t","h","e"," ","r","a","t","i","n","g">>
  /\ Action("read_description")

\* an earlier intent keeps "describe" from the description entry
C17_PlayDescribe ==
  /\ DetailsCall
  /\ norm = <<"p","l","a","y"," ","d","e","s","c","r","i","b","e">>
  /\ Action("unknown")

\* the rating entry fails on a row without a rating average
C17_RatingFails ==
  /\ DetailsCall
  /\ norm = <<"r","a","t","i","n","g">>
  /\ Referenced[1].vote_average = <<>>
  /\ res = Raise("internal")


(***************************************************************************)
(* C18.  In the navigation context, every command that contains "help" or  *)
(* "what can i say" and none of the earlier navigation phrases (go home,   *)
(* main page, search page, find movies, favorites, my movies, settings,    *)
(* accessibility options) yields action help.                              *)
(***************************************************************************)
NavigationCall == Called /\ Context = "navigation"

\* the phrases of the four navigation entries before help, in table order
NavigationEntries == <<
  [action |-> "navigate_home", phrases |-> {<<"g","o"," ","h","o","m","e">>, <<"m","a","i","n"," ","p","a","g","e">>}],
  [action |-> "navigate_search", phrases |-> {<<"s","e","a","r","c","h"," ","p","a","g","e">>, <<"f","i","n","d"," ","m","o","v","i","e","s">>}],
  [action |-> "navigate_favorites", phrases |-> {<<"f","a","v","o","r","i","t","e","s">>, <<"m","y"," ","m","o","v","i","e","s">>}],
  [action |-> "navigate_settings", phrases |-> {<<"s","e","t","t","i","n","g","s">>, <<"a","c","c","e","s","s","i","b","i","l","i","t","y"," ","o","p","t","i","o","n","s">>}] >>

\* the entries before help of which the utterance contains a phrase
EntriesSaid == {i \in DOMAIN NavigationEntries : SaysAny(NavigationEntries[i].phrases)}

C18_HelpBySubstring ==
  NavigationCall =>
    ((SaysAny({<<"h","e","l","p">>, <<"w","h","a","t"," ","c","a","n"," ","i"," ","s","a","y">>}) /\ EntriesSaid = {}) => Action("help"))

\* C18, what the handler does: past the four earlier entries, the action is
\* help exactly when the utterance is classified help
C18_HelpByIntent ==
  (NavigationCall /\ EntriesSaid = {}) =>
    IF ClassifiedAs("help") THEN Action("help") ELSE Action("unknown")

\* "show me what can I say" is classified search and gets no help
C18_WhatCanISayUnanswered ==
  /\ NavigationCall
  /\ req.command = <<"s","h","o","w"," ","m","e"," ","w","h","a","t"," ","c","a","n"," ","I"," ","s","a","y">>
  /\ Says(<<"w","h","a","t"," ","c","a","n"," ","i"," ","s","a","y">>)
  /\ Action("unknown")


(***************************************************************************)
(* C19.  Routing is first-match in a fixed order and the table is selected *)
(* by the request's context alone.  In the navigation context (which an    *)
(* omitted context selects too) the entries are tried in the order home,   *)
(* search page, favorites, settings, help: a command containing phrases of *)
(* several entries gets the action of the earliest of them whatever its    *)
(* classified intent is ("go home" with "settings" gives navigate_home),   *)
(* and the action of a response is always one of its context's table.      *)
(***************************************************************************)
TableActions ==
  [search |-> {"search", "filter", "recommend", "unknown"},
   player |-> {"play", "pause", "volume", "captions", "describe", "unknown"},
   details |-> {"read_description", "accessibility_features", "rating",
                "find_similar", "unknown"},
   navigation |-> {"navigate_home", "navigate_search", "navigate_favorites",
                   "navigate_settings", "help", "unknown"}]

C19_FirstMatchByContext ==
  Called =>
    /\ res.kind = "ok" => res.action \in TableActions[Context]
    /\ req.context = <<>> => Context = "navigation"
    /\ Context = "navigation" =>
          LET said == EntriesSaid
          IN  \A i \in said :
                (\A j \in said : i <= j) => Action(NavigationEntries[i].action)
    /\ (Context = "navigation" /\ Says(<<"g","o"," ","h","o","m","e">>) /\ Says(<<"s","e","t","t","i","n","g","s">>))
          => Action("navigate_home")

\* two entries named in reverse order by an utterance classified search
C19_Witness ==
  /\ NavigationCall
  /\ norm = <<"f","i","n","d"," ","m","o","v","i","e","s"," ","g","o"," ","h","o","m","e">>
  /\ EntriesSaid = {1, 2}
  /\ commandIntent.intent = "search"
  /\ Action("navigate_home")

C19_WitnessSettings ==
  /\ NavigationCall
  /\ norm = <<"s","e","t","t","i","n","g","s"," ","g","o"," ","h","o","m","e">>
  /\ Action("navigate_home")

C19_WitnessOmitted ==
  /\ Called /\ req.context = <<>>
  /\ norm = <<"h","e","l","p"," ","g","o"," ","h","o","m","e">>
  /\ Action("navigate_home")


(***************************************************************************)
(* C20.  In the player context with a movieId, the command "disable        *)
(* captions" that the player's help lists yields action captions with      *)
(* data.enable false and the response "Disabling captions".                *)
(***************************************************************************)
C20_DisableCaptions ==
  (PlayerCall /\ norm = <<"d","i","s","a","b","l","e"," ","c","a","p","t","i","o","n","s">>) =>
    /\ Action("captions")
    /\ res.data.enable = FALSE
    /\ res.response = "Disabling captions"

\* the command switches captions on: "captions" contains "on"
C20_DisableEnables ==
  /\ PlayerCall
  /\ norm = <<"d","i","s","a","b","l","e"," ","c","a","p","t","i","o","n","s">>
  /\ Action("captions")
  /\ res.data.enable = TRUE
  /\ res.response = "Enabling captions"


(***************************************************************************)
(* C21.  The Grade 2 output equals that of the reference left-to-right     *)
(* greedy algorithm: at each cursor position the longest substring of      *)
(* length 10 down to 2 starting there that is in the contraction table is  *)
(* replaced by its cell and the cursor moves past it, otherwise the single *)
(* character is mapped as in Grade 1 (or passed through) and the cursor    *)
(* moves by one; matching ignores word boundaries; a text containing no    *)
(* contraction as a substring has the same Grade 1 and Grade 2 output.     *)
(***************************************************************************)
\* the contractions of the table that start at position i of the text
ContractionsAt(text, i) ==
  {c \in DOMAIN contractionCells :
     LET key == contractionCells[c].key
     IN  /\ i + Len(key) - 1 <= Len(text)
         /\ ToLowerCase(SubSeq(text, i, i + Len(key) - 1)) = key}

RECURSIVE Greedy(_, _)
\* the reference algorithm from cursor i on
Greedy(text, i) ==
  IF i > Len(text) THEN <<>>
  ELSE LET at == ContractionsAt(text, i)
       IN  IF at # {}
             THEN LET c == CHOOSE x \in at :
                             \A y \in at : Len(contractionCells[x].key)
                                              >= Len(contractionCells[y].key)
                  IN  contractionCells[c].cells
                        \o Greedy(text, i + Len(contractionCells[c].key))
             ELSE transliterate(<<text[i]>>, "1", 1) \o Greedy(text, i + 1)

ConvertedGrade2 == brOut # NotConverted /\ brGrade = "2"

NoContraction(text) == \A i \in 1..Len(text) : ContractionsAt(text, i) = {}

C21_Grade2IsGreedy ==
  ConvertedGrade2 =>
    /\ Rejoin(brOut, brCells) = Greedy(brText, 1)
    /\ NoContraction(brText) => brOut = convertToBraille(brText, "1", brCells)

\* the texts that do not name the property every object inherits
NoInheritedName(text) ==
  \A i \in 1..Len(text) :
    ToLowerCase(SubSeq(text, i, Len(text))) # inheritedCells[1].key
    /\ (i + 8 <= Len(text) => ToLowerCase(SubSeq(text, i, i + 8)) # inheritedCells[1].key)

\* C21 for every text that does not contain "__proto__"
C21_Grade2IsGreedyOnOtherTexts ==
  (ConvertedGrade2 /\ NoInheritedName(brText)) =>
    /\ Rejoin(brOut, brCells) = Greedy(brText, 1)
    /\ NoContraction(brText) => brOut = convertToBraille(brText, "1", brCells)

\* "and" is contracted inside "sand"
C21_Sand ==
  /\ ConvertedGrade2
  /\ brText = <<"s","a","n","d">>
  /\ brCells = 2
  /\ brOut = <<"280E", "282F">>

\* "__proto__" comes out as the text of the prototype object
C21_InheritedName ==
  /\ ConvertedGrade2
  /\ brText = <<"_","_","p","r","o","t","o","_","_">>
  /\ Rejoin(brOut, brCells) = <<"[","o","b","j","e","c","t"," ","O","b","j","e","c","t","]">>
  /\ Len(Greedy(brText, 1)) = 9


(***************************************************************************)
(* C22.  formatBrailleLines splits the transliterated cell string into     *)
(* consecutive chunks without reordering or dropping cells: every line has *)
(* at most cellsPerLine cells, every line except the last has exactly      *)
(* cellsPerLine, the concatenation of the lines is the cell string, and an *)
(* empty cell string gives no lines.                                       *)
(***************************************************************************)
\* the cell string that was formatted
CellString == transliterate(brText, brGrade, 1)

\* the number of lines a cell string of this length fills
LineCount == (Len(CellString) + brCells - 1) \div brCells

\* the k-th line of the output: what lies between two line breaks
OutputLine(k) ==
  LET first == (k - 1) * (brCells + 1) + 1
      last == k * (brCells + 1) - 1
  IN  SubSeq(brOut, first, IF last > Len(brOut) THEN Len(brOut) ELSE last)

C22_LinesAreConsecutiveChunks ==
  brOut # NotConverted =>
    LET cells == CellString
        count == (Len(cells) + brCells - 1) \div brCells
    IN  /\ cells = <<>> => brOut = <<>>
        /\ Len(brOut) = Len(cells) + (IF count = 0 THEN 0 ELSE count - 1)
        /\ \A k \in 1..(count - 1) :
              brOut[k * (brCells + 1)] = "\n" /\ Len(OutputLine(k)) = brCells
        /\ \A k \in 1..count :
              LET line == OutputLine(k)
              IN  /\ Len(line) \in 1..brCells
                  /\ line = SubSeq(cells, (k - 1) * brCells + 1,
                                   (k - 1) * brCells + Len(line))
        /\ Rejoin(brOut, brCells) = cells

\* three cells on lines of two: a full line and a shorter last line
C22_Witness ==
  /\ brOut # NotConverted
  /\ brText = <<"a","s","a">> /\ brGrade = "1" /\ brCells = 2
  /\ LineCount = 2
  /\ OutputLine(1) = <<"2801", "280E">>
  /\ OutputLine(2) = <<"2801">>

C22_WitnessEmpty ==
  /\ brOut = <<>>
  /\ brText = <<>>
  /\ LineCount = 0


(***************************************************************************)
(* C23.  In the BrailleDisplay component, after any sequence of operations *)
(* (change of text, enabling or disabling braille, change of grade, change *)
(* of cellsPerLine) the displayed braille output is the encoding of the    *)
(* current text under the current grade and the current cellsPerLine when  *)
(* braille is enabled and the text is not empty, and is empty otherwise.   *)
(***************************************************************************)
\* what line 204 shows: brailleText while braille is enabled
Displayed == IF brEnabled THEN brOut ELSE <<>>

C23_DisplayFollowsState ==
  Displayed = IF brEnabled /\ brText # <<>>
                THEN convertToBraille(brText, brGrade, brCells)
                ELSE <<>>

\* C23 without the change of cellsPerLine: the output is the encoding of
\* the current text under the current grade, at some line width
C23_DisplayFollowsTextAndGrade ==
  \E cellsPerLine \in 1..MaxCells :
    Displayed = IF brEnabled /\ brText # <<>>
                  THEN convertToBraille(brText, brGrade, cellsPerLine)
                  ELSE <<>>

\* after widening the lines to two cells the output still has one per line
C23_StaleWidth ==
  /\ brEnabled
  /\ brText = <<"s","a","n","d">> /\ brGrade = "1" /\ brCells = 2
  /\ brOut = <<"280E", "\n", "2801", "\n", "281D", "\n", "2819">>


(***************************************************************************)
(* C24.  As claimed: the predictedNextActions of a response are determined *)
(* by the classified intent alone: any two calls whose utterances have the *)
(* same intent return the same ordered list, whatever the context and the  *)
(* entities are.                                                           *)
(***************************************************************************)
\* the intent, action and predicted actions of every call that answers,
\* made alone against a table that holds a row for the id asked
OtherCalls ==
  LET table == [i \in Ids |-> <<CHOOSE row \in SampleRows : row.vote_average # <<>>>>]
  IN  UNION {
        {LET command == normalizedCommandOf(u)
             intent == analyzeCommandIntent(command, contextOf([context |-> c]))
             out == dispatch(contextOf([context |-> c]), command, intent,
                             [movieId |-> <<1>>, userId |-> <<"demo-user">>], table).res
         IN  [intent |-> intent.intent, action |-> out.action,
              predicted |-> out.predictedNextActions] :
           u \in UtterancesOf(PhrasesFor(c))} : c \in RequestContexts}

Responded == Called /\ res.kind = "ok"

C24_PredictionsByIntent ==
  Responded =>
    \A o \in OtherCalls :
      o.intent = commandIntent.intent => o.predicted = res.predictedNextActions

(***************************************************************************)
(* C24, amended.  The predictedNextActions of a response are determined by *)
(* the action of the response alone: any two calls that return the same    *)
(* action return the same ordered list of action, description and          *)
(* confidence, whatever the utterance, its classified intent and its       *)
(* entities are; the list of action unknown is empty.                      *)
(***************************************************************************)
C24_PredictionsByAction ==
  Responded =>
    /\ \A o \in OtherCalls :
          o.action = res.action => o.predicted = res.predictedNextActions
    /\ res.action = "unknown" => res.predictedNextActions = <<>>

\* an utterance classified search gets the list of navigate_home, as the
\* utterance "go home" classified unknown does
C24_Witness ==
  /\ Responded
  /\ norm = <<"f","i","n","d"," ","m","o","v","i","e","s"," ","g","o"," ","h","o","m","e">>
  /\ commandIntent.intent = "search"
  /\ res.action = "navigate_home"
  /\ [intent |-> "unknown", action |-> "navigate_home",
      predicted |-> res.predictedNextActions] \in OtherCalls
  /\ \E o \in OtherCalls : o.intent = "search" /\ o.predicted # res.predictedNextActions


(***************************************************************************)
(* C25.  Entity extraction is additive and pure: for every normalized text *)
(* the result holds exactly the accessibility tags, genres and action      *)
(* keywords of which a phrase occurs in the text, each once and in         *)
(* vocabulary order, with no cutoff after the first; a text naming none    *)
(* gives empty lists, not an error; extracting again from the same text    *)
(* gives the same lists.                                                   *)
(***************************************************************************)
\* the names of a vocabulary of which the utterance says a phrase, in the
\* vocabulary's order
Named(vocabulary) ==
  LET said == {i \in DOMAIN vocabulary : SaysAny(vocabulary[i].phrases)}
  IN  [k \in 1..Cardinality(said) |->
         vocabulary[CHOOSE i \in said : Cardinality({j \in said : j <= i}) = k].name]

C25_EntitiesAreAdditive ==
  Called =>
    /\ commandIntent.entities.accessibilityFeatures = Named(accessibilityVocabulary)
    /\ commandIntent.entities.genres = Named(genres)
    /\ commandIntent.entities.actions = Named(actions)
    /\ extractEntities(norm) = commandIntent.entities

\* two tags, two genres and two actions, each pair named against the
\* vocabulary's order
C25_Witness ==
  /\ Called
  /\ norm = <<"s","i","g","n"," ","l","a","n","g","u","a","g","e"," ","n","a","r","r","a","t","i","o","n"," ","d","r","a","m","a"," ","c","o","m","e","d","y">>
  /\ commandIntent.entities.accessibilityFeatures = <<"audio_description", "sign_language">>
  /\ commandIntent.entities.genres = <<"comedy", "drama">>
  /\ commandIntent.entities.actions = <<>>

C25_WitnessOnce ==
  /\ Called
  /\ norm = <<"s","u","b","t","i","t","l","e"," ","c","a","p","t","i","o","n"," ","s","e","t","t","i","n","g","s"," ","v","o","l","u","m","e">>
  /\ commandIntent.entities.accessibilityFeatures = <<"closed_captions">>
  /\ commandIntent.entities.actions = <<"volume", "settings">>

C25_WitnessNone ==
  /\ Called
  /\ norm = <<"x","y","z","z","y">>
  /\ commandIntent.entities.accessibilityFeatures = <<>>
  /\ commandIntent.entities.genres = <<>>
  /\ commandIntent.entities.actions = <<>>
  /\ res.kind = "ok"


(***************************************************************************)
(* C26.  In the search context, whenever the intent is search the response *)
(* has action search and a non-empty data.query: an utterance classified   *)
(* search never produces an empty query.                                   *)
(***************************************************************************)
SearchClassified == Called /\ Context = "search" /\ commandIntent.intent = "search"

C26_QueryNeverEmpty ==
  SearchClassified => Action("search") /\ res.data.query # <<>>

\* the command patterns that match the normalized command, by position in
\* the pattern list
PatternsMatched == {i \in 1..Len(searchPatterns) : MatchRest(norm, searchPatterns[i]) # <<>>}

\* C26, as the code has it: the response has action search; the query is
\* the trimmed text after the leftmost occurrence of the first pattern of
\* the list that is followed by text in the normalized command, and when no
\* pattern is, the normalized command without its command words, trimmed,
\* which is empty for a command made of command words only.
C26_QueryIsRestOrStripped ==
  SearchClassified =>
    LET matched == PatternsMatched
    IN  /\ Action("search")
        /\ IF matched # {}
             THEN LET i == CHOOSE h \in matched : \A g \in matched : h <= g
                  IN  res.data.query = Trim(MatchRest(norm, searchPatterns[i])[1])
             ELSE res.data.query = Trim(ReplaceAll(norm, searchWords, 1))
        /\ (norm \in {searchWords[w] : w \in 1..Len(searchWords)} => res.data.query = <<>>)

\* "search" alone is classified search and gives the empty query
C26_Witness ==
  /\ SearchClassified
  /\ norm = <<"s","e","a","r","c","h">>
  /\ PatternsMatched = {}
  /\ Action("search")
  /\ res.data.query = <<>>

\* "search for find me something": two patterns match and the first of
\* the list gives the query
C26_WitnessPattern ==
  /\ SearchClassified
  /\ PatternsMatched = {1, 2}
  /\ res.data.query = <<"f","i","n","d"," ","m","e"," ","s","o","m","e","t","h","i","n","g">>


(***************************************************************************)
(* processVoiceCommand calls in progress at once.  A call is suspended at  *)
(* each await: after analyzeCommandIntent (line 51) and, in the player and *)
(* details handlers, at the SELECT on the movies table (lines 308, 406).   *)
(***************************************************************************)
\* requests of the calls in progress at once
ConcurrentRequests ==
  { [command |-> command, context |-> context, movieId |-> movieId, userId |-> <<"demo-user">>] :
      command \in { <<"P","l","a","y">>, <<"d","e","s","c","r","i","b","e">>, <<"s","e","a","r","c","h"," ","f","o","r"," ","F","r","e","e"," ","S","o","l","o">> },
      context \in { <<>>, <<"player">>, <<"details">>, <<"search">> },
      movieId \in { <<>>, <<1>> } }

localsOf_OfFirstSlot(cs, c) == IF cs[1].pc # "idle" THEN cs[1] ELSE cs[c]

\* the locals of a call (command, context, movieId, userId,
\* normalizedCommand, commandIntent): each invocation of the handler has its
\* own, and the module keeps no variable of its own
localsOf(cs, c) == cs[c]

\* lines 46-51: the request is destructured, the command normalized and
\* classified; the call waits at the await of line 51
Begin(c, r) ==
  /\ calls[c].pc = "idle"
  /\ \E normalizedCommand \in {normalizedCommandOf(r.command)} :
       calls' = [calls EXCEPT ![c] =
                   [pc |-> "classified", req |-> r, norm |-> normalizedCommand,
                    commandIntent |-> analyzeCommandIntent(normalizedCommand, contextOf(r))]]
  /\ UNCHANGED <<voiceVars, brailleVars, ai, movieRows, popularCalls, userFavorites, favCall, vn>>

\* lines 54-67: the switch enters a handler.  The search and navigation
\* handlers, and a player or details handler that throws for a missing
\* movieId, run to their end; the others wait at their SELECT
Handle(c) ==
  /\ calls[c].pc = "classified"
  /\ LET l == localsOf(calls, c)
         out == dispatch(contextOf(l.req), l.norm, l.commandIntent, l.req, movies)
     IN  calls' = [calls EXCEPT ![c] =
                     IF out.lookups = <<>>
                       THEN [@ EXCEPT !.pc = "returned"] @@ [res |-> out.res]
                       ELSE [@ EXCEPT !.pc = "querying"]]
  /\ UNCHANGED <<voiceVars, brailleVars, ai, movieRows, popularCalls, userFavorites, favCall, vn>>

\* the SELECT reads the movies table and the handler builds its response
\* from the row
Resume(c) ==
  /\ calls[c].pc = "querying"
  /\ LET l == localsOf(calls, c)
         out == dispatch(contextOf(l.req), l.norm, l.commandIntent, l.req, movies)
     IN  calls' = [calls EXCEPT ![c] = [@ EXCEPT !.pc = "returned"] @@ [res |-> out.res]]
  /\ UNCHANGED <<voiceVars, brailleVars, ai, movieRows, popularCalls, userFavorites, favCall, vn>>

\* the response, or the error, reaches the caller
Deliver(c) ==
  /\ calls[c].pc = "returned"
  /\ calls' = [calls EXCEPT ![c] = NoLocals]
  /\ UNCHANGED <<voiceVars, brailleVars, ai, movieRows, popularCalls, userFavorites, favCall, vn>>

NextConcurrent ==
  \/ \E c \in Slots, r \in ConcurrentRequests : Begin(c, r)
  \/ \E c \in Slots : Handle(c)
  \/ \E c \in Slots : Resume(c)
  \/ \E c \in Slots : Deliver(c)

SpecConcurrent == Init /\ [][NextConcurrent]_vars

(***************************************************************************)
(* C27.  processVoiceCommand only reads: over any interleaving of calls    *)
(* no table is ever changed, and each call returns the response it would   *)
(* return if it ran alone against the same movies table.                   *)
(***************************************************************************)
\* the response of a call of the endpoint that runs alone
AloneResponse(r, db) ==
  LET normalizedCommand == normalizedCommandOf(r.command)
  IN  dispatch(contextOf(r), normalizedCommand,
               analyzeCommandIntent(normalizedCommand, contextOf(r)), r, db).res

ReturnedAsAlone ==
  \A c \in Slots :
    calls[c].pc = "returned" => calls[c].res = AloneResponse(calls[c].req, movies)

CatalogPages == { <<"tt1">>, <<"tt1", "tt2">>, <<"tt2", "tt1">> }

\* rows of the movies table with the vidsrc_id
RowsWith(rows, vidsrcId) == {i \in 1..Len(rows) : rows[i] = vidsrcId}

\* lines 58-79: the row becomes a Movie of the answer and the loop goes on;
\* after the last movie of the page the call returns
Collected(l) ==
  LET movies_ == Append(l.got, Head(l.todo))
  IN  IF Tail(l.todo) = <<>>
        THEN [pc |-> "returned", res |-> Ok([movies |-> movies_])]
        ELSE [pc |-> "select", todo |-> Tail(l.todo), got |-> movies_]

\* lines 23-31: the catalog page is fetched and the loop starts
PopularBegin(c, page) ==
  /\ popularCalls[c].pc = "idle"
  /\ popularCalls' = [popularCalls EXCEPT ![c] =
                        [pc |-> "select", todo |-> page, got |-> <<>>]]
  /\ UNCHANGED <<voiceVars, brailleVars, ai, calls, movieRows, userFavorites, favCall, vn>>

\* lines 33-37: SELECT * FROM movies WHERE vidsrc_id = ...
SelectByVidsrcId(c) ==
  /\ popularCalls[c].pc = "select"
  /\ LET l == popularCalls[c]
     IN  popularCalls' = [popularCalls EXCEPT ![c] =
                            IF RowsWith(movieRows, Head(l.todo)) # {}
                              THEN Collected(l)
                              ELSE [l EXCEPT !.pc = "insert"]]
  /\ UNCHANGED <<voiceVars, brailleVars, ai, calls, movieRows, userFavorites, favCall, vn>>

\* lines 41-55: INSERT INTO movies ... RETURNING *.  The column is declared
\* vidsrc_id TEXT UNIQUE (1_create_tables.up.sql line 3) and the statement
\* has no ON CONFLICT clause: when a row with the id is there, the
\* statement fails, the await throws and the call ends with the error
InsertMovie(c) ==
  /\ popularCalls[c].pc = "insert"
  /\ LET l == popularCalls[c]
     IN  IF RowsWith(movieRows, Head(l.todo)) # {}
           THEN /\ popularCalls' = [popularCalls EXCEPT ![c] =
                                      [pc |-> "returned", res |-> Raise("internal")]]
                /\ UNCHANGED movieRows
           ELSE /\ movieRows' = Append(movieRows, Head(l.todo))
                /\ popularCalls' = [popularCalls EXCEPT ![c] = Collected(l)]
  /\ UNCHANGED <<voiceVars, brailleVars, ai, calls, userFavorites, favCall, vn>>

\* the answer, or the error, reaches the caller
PopularDeliver(c) ==
  /\ popularCalls[c].pc = "returned"
  /\ popularCalls' = [popularCalls EXCEPT ![c] = NoLocals]
  /\ UNCHANGED <<voiceVars, brailleVars, ai, calls, movieRows, userFavorites, favCall, vn>>

NextPopular ==
  \/ \E c \in Slots, page \in CatalogPages : PopularBegin(c, page)
  \/ \E c \in Slots : SelectByVidsrcId(c)
  \/ \E c \in Slots : InsertMovie(c)
  \/ \E c \in Slots : PopularDeliver(c)

SpecPopular == Init /\ [][NextPopular]_vars

(***************************************************************************)
(* C28.  When two popular() requests run at once and the catalog returns a *)
(* movie whose vidsrc_id is not stored yet, both requests complete without *)
(* error and the movies table ends with exactly one row for the vidsrc_id. *)
(***************************************************************************)
C28_ConcurrentInsertIsSafe ==
  /\ \A c \in Slots :
       popularCalls[c].pc = "returned" => popularCalls[c].res.kind = "ok"
  /\ \A i, j \in 1..Len(movieRows) : movieRows[i] = movieRows[j] => i = j

\* the part of C28 that the UNIQUE constraint gives: never two rows with
\* one vidsrc_id, and a completed request has left a row for each movie of
\* its answer
C28_OneRowPerVidsrcId ==
  /\ \A i, j \in 1..Len(movieRows) : movieRows[i] = movieRows[j] => i = j
  /\ \A c \in Slots :
       (popularCalls[c].pc = "returned" /\ popularCalls[c].res.kind = "ok")
         => \A k \in 1..Len(popularCalls[c].res.movies) :
              Cardinality(RowsWith(movieRows, popularCalls[c].res.movies[k])) = 1

\* both requests found no row for "tt1"; one has inserted it and completed,
\* the other has failed on its INSERT
C28_Race ==
  /\ popularCalls[1].pc = "returned"
  /\ popularCalls[1].res = Ok([movies |-> <<"tt1">>])
  /\ popularCalls[2].pc = "returned"
  /\ popularCalls[2].res = Raise("internal")
  /\ movieRows = <<"tt1">>


(***************************************************************************)
(* Favorites: addFavorite, removeFavorite, getFavorites over the           *)
(* user_favorites table, UNIQUE(user_id, movie_id), movie_id REFERENCES    *)
(* movies(id).                                                             *)
(***************************************************************************)
FavoriteUsers == {"u1", "u2"}

\* movie ids asked for: 1 can have a row in movies, 2 never has
FavoriteMovieIds == {1, 2}

insertFavorite_Always(rows, userId, movieId) ==
  Append(rows, [user_id |-> userId, movie_id |-> movieId])

\* INSERT INTO user_favorites (user_id, movie_id) VALUES (...)
\* ON CONFLICT (user_id, movie_id) DO NOTHING
insertFavorite(rows, userId, movieId) ==
  IF \E i \in 1..Len(rows) : rows[i].user_id = userId /\ rows[i].movie_id = movieId
    THEN rows
    ELSE Append(rows, [user_id |-> userId, movie_id |-> movieId])

\* DELETE FROM user_favorites WHERE user_id = ... AND movie_id = ...
deleteFavorite(rows, userId, movieId) ==
  LET Kept(row) == ~(row.user_id = userId /\ row.movie_id = movieId)
  IN  SelectSeq(rows, Kept)

RECURSIVE selectFavorites(_, _, _, _)
\* SELECT m.* FROM movies m INNER JOIN user_favorites uf ON m.id =
\* uf.movie_id WHERE uf.user_id = ... ORDER BY uf.created_at DESC: the ids
\* of the movies returned, the latest favorite first
selectFavorites(rows, db, userId, i) ==
  IF i = 0 THEN <<>>
  ELSE IF rows[i].user_id = userId /\ queryRow(db, <<rows[i].movie_id>>) # <<>>
         THEN <<rows[i].movie_id>> \o selectFavorites(rows, db, userId, i - 1)
         ELSE selectFavorites(rows, db, userId, i - 1)

addFavorite(userId, movieId) ==
  /\ LET movie == queryRow(movies, <<movieId>>)
     IN  IF movie = <<>>
           THEN /\ favCall' = [op |-> "addFavorite", userId |-> userId, movieId |-> movieId,
                               res |-> Raise("not_found")]
                /\ UNCHANGED userFavorites
           ELSE /\ userFavorites' = insertFavorite(userFavorites, userId, movieId)
                /\ favCall' = [op |-> "addFavorite", userId |-> userId, movieId |-> movieId,
                               res |-> Ok(<<>>)]
  /\ UNCHANGED <<voiceVars, brailleVars, ai, calls, movieRows, popularCalls, vn>>

removeFavorite(userId, movieId) ==
  /\ userFavorites' = deleteFavorite(userFavorites, userId, movieId)
  /\ favCall' = [op |-> "removeFavorite", userId |-> userId, movieId |-> movieId,
                 res |-> Ok(<<>>)]
  /\ UNCHANGED <<voiceVars, brailleVars, ai, calls, movieRows, popularCalls, vn>>

getFavorites(userId) ==
  /\ favCall' = [op |-> "getFavorites", userId |-> userId,
                 res |-> Ok([movies |-> selectFavorites(userFavorites, movies, userId,
                                                        Len(userFavorites))])]
  /\ UNCHANGED <<voiceVars, brailleVars, ai, calls, movieRows, popularCalls, userFavorites, vn>>

NextFavorites ==
  \/ \E userId \in FavoriteUsers, movieId \in FavoriteMovieIds : addFavorite(userId, movieId)
  \/ \E userId \in FavoriteUsers, movieId \in FavoriteMovieIds : removeFavorite(userId, movieId)
  \/ \E userId \in FavoriteUsers : getFavorites(userId)

SpecFavorites == Init /\ [][NextFavorites]_vars


(***************************************************************************)
(* C29.  After any sequence of addFavorite and removeFavorite calls each   *)
(* (userId, movieId) is stored at most once and is a favorite exactly when *)
(* the last successful call on it was an add: an add puts the pair in, a   *)
(* remove takes it out, no call touches another pair, adding a pair that   *)
(* is there and removing one that is not succeed and change nothing;       *)
(* addFavorite for a movie that has no row fails with not found and leaves *)
(* the favorites unchanged; getFavorites(userId) returns exactly the       *)
(* favorites of that user.                                                 *)
(***************************************************************************)
FavoritePairs(rows) == {<<rows[i].user_id, rows[i].movie_id>> : i \in 1..Len(rows)}

StoredOnce ==
  \A i, j \in 1..Len(userFavorites) : userFavorites[i] = userFavorites[j] => i = j

\* what a step of the favorites endpoints does to the table, by the call
\* it leaves in favCall
FavoritesStep ==
  LET call == favCall'
      before == FavoritePairs(userFavorites)
      after == FavoritePairs(userFavorites')
  IN  CASE call.op = "addFavorite" ->
             IF call.movieId \in DOMAIN movies /\ movies[call.movieId] # <<>>
               THEN /\ call.res.kind = "ok"
                    /\ after = before \cup {<<call.userId, call.movieId>>}
                    /\ (<<call.userId, call.movieId>> \in before => userFavorites' = userFavorites)
               ELSE /\ call.res = [kind |-> "error", code |-> "not_found"]
                    /\ userFavorites' = userFavorites
        [] call.op = "removeFavorite" ->
             /\ call.res.kind = "ok"
             /\ after = before \ {<<call.userId, call.movieId>>}
             /\ (<<call.userId, call.movieId>> \notin before => userFavorites' = userFavorites)
        [] call.op = "getFavorites" ->
             /\ call.res.kind = "ok"
             /\ userFavorites' = userFavorites
             /\ {call.res.movies[k] : k \in 1..Len(call.res.movies)}
                  = {pair[2] : pair \in {q \in before : q[1] = call.userId}}
             /\ Len(call.res.movies) = Cardinality({q \in before : q[1] = call.userId})
        [] OTHER -> FALSE

C29_FavoritesFollowCalls ==
  /\ []StoredOnce
  /\ [][FavoritesStep]_vars

\* both users have added movie 1 and the first has removed it again
C29_Witness ==
  /\ favCall.op = "removeFavorite"
  /\ favCall.userId = "u1"
  /\ favCall.movieId = 1
  /\ userFavorites = <<[user_id |-> "u2", movie_id |-> 1]>>

\* an add for a movie without a row, after another favorite was stored
C29_WitnessNotFound ==
  /\ favCall.op = "addFavorite"
  /\ favCall.movieId = 2
  /\ favCall.res = [kind |-> "error", code |-> "not_found"]
  /\ userFavorites # <<>>

\* the favorites of one user, with another user's favorite in the table
C29_WitnessGet ==
  /\ favCall.op = "getFavorites"
  /\ favCall.userId = "u2"
  /\ favCall.res.movies = <<1>>
  /\ Len(userFavorites) = 2


(***************************************************************************)
(* VoiceNavigation component: the recognition callbacks (lines 39-58) and  *)
(* handleVoiceCommand (lines 74-117), which calls processVoiceCommand and  *)
(* is suspended until the call settles.                                    *)
(***************************************************************************)
errorMessage == "Sorry, I could not process that command. Please try again."

\* a failed call that is not an error of the endpoint
NetworkError == [kind |-> "error", code |-> "unavailable"]

\* onCommand(response.action, response.data): data is undefined for a
\* response without the field
Invocation(out) ==
  [action |-> out.action,
   data |-> IF "data" \in DOMAIN out THEN <<out.data>> ELSE <<>>]

handled_NoFinally(v, out, throws) ==
  IF out.kind = "ok"
    THEN [v EXCEPT !.settled = <<out>>, !.inFlight = <<>>, !.isProcessing = FALSE,
                   !.lastResponse = [of |-> "response", text |-> out.response],
                   !.invoked = IF v.onCommand THEN <<Invocation(out)>> ELSE <<>>]
    ELSE [v EXCEPT !.settled = <<out>>, !.inFlight = <<>>,
                   !.lastResponse = [of |-> "error", text |-> errorMessage]]

\* lines 77-116: the rest of handleVoiceCommand once the call has settled
\* with out.  try: setLastResponse(response.response), the speech, then
\* onCommand(response.action, response.data) when the prop is there;
\* catch, entered when the call failed or when onCommand throws:
\* setLastResponse(errorMessage); finally: setIsProcessing(false)
handled(v, out, throws) ==
  LET called == IF out.kind = "ok" /\ v.onCommand THEN <<Invocation(out)>> ELSE <<>>
      caught == out.kind # "ok" \/ (called # <<>> /\ throws)
  IN  [v EXCEPT !.settled = <<out>>,
                !.inFlight = <<>>,
                !.invoked = called,
                !.lastResponse = IF caught THEN [of |-> "error", text |-> errorMessage]
                                 ELSE [of |-> "response", text |-> out.response],
                !.isProcessing = FALSE]

InitComponent ==
  /\ movies \in Stores(SampleRows)
  /\ VoiceIdle
  /\ BrailleIdle
  /\ AIIdle
  /\ calls = [c \in Slots |-> NoLocals]
  /\ movieRows = <<>>
  /\ popularCalls = [c \in Slots |-> NoLocals]
  /\ userFavorites = <<>>
  /\ favCall = NoFavoriteCall
  /\ vn \in {MountedWith(onCommand) : onCommand \in BOOLEAN}

\* the microphone button (lines 119-123; the button is disabled while
\* isProcessing) and recognition.onstart
StartListening ==
  /\ ~vn.isProcessing
  /\ ~vn.isListening
  /\ vn' = [vn EXCEPT !.isListening = TRUE]
  /\ UNCHANGED <<voiceVars, brailleVars, ai, calls, movieRows, popularCalls, userFavorites, favCall>>

\* recognition.onresult and the start of handleVoiceCommand (lines 48-52,
\* 75-83): setIsProcessing(true) and the call of processVoiceCommand with
\* the component's context and movieId and the user "demo-user".  The
\* request is in flight together with what the endpoint answers to it on
\* the movies table, a response or an error
OnResult(r) ==
  /\ vn.isListening
  /\ vn.inFlight = <<>>
  /\ vn' = [vn EXCEPT !.isProcessing = TRUE,
                      !.inFlight = <<[request |-> r, answer |-> AloneResponse(r, movies)]>>,
                      !.settled = <<>>, !.invoked = <<>>]
  /\ UNCHANGED <<voiceVars, brailleVars, ai, calls, movieRows, popularCalls, userFavorites, favCall>>

\* recognition.onend
OnEnd ==
  /\ vn.isListening
  /\ vn' = [vn EXCEPT !.isListening = FALSE]
  /\ UNCHANGED <<voiceVars, brailleVars, ai, calls, movieRows, popularCalls, userFavorites, favCall>>

\* recognition.onerror, in place of a result
OnError ==
  /\ vn.isListening
  /\ vn.inFlight = <<>>
  /\ vn' = [vn EXCEPT !.isListening = FALSE, !.isProcessing = FALSE]
  /\ UNCHANGED <<voiceVars, brailleVars, ai, calls, movieRows, popularCalls, userFavorites, favCall>>

\* the answer arrives, the call settles with it and handleVoiceCommand
\* runs to its end
Settle ==
  /\ vn.inFlight # <<>>
  /\ \E throws \in BOOLEAN : vn' = handled(vn, vn.inFlight[1].answer, throws)
  /\ UNCHANGED <<voiceVars, brailleVars, ai, calls, movieRows, popularCalls, userFavorites, favCall>>

\* the call fails before an answer arrives
Fail ==
  /\ vn.inFlight # <<>>
  /\ vn' = handled(vn, NetworkError, FALSE)
  /\ UNCHANGED <<voiceVars, brailleVars, ai, calls, movieRows, popularCalls, userFavorites, favCall>>

NextComponent ==
  \/ StartListening
  \/ \E r \in ConcurrentRequests : OnResult(r)
  \/ OnEnd
  \/ OnError
  \/ Settle
  \/ Fail

\* an awaited call settles, and the event loop then runs the rest of
\* handleVoiceCommand
SpecComponent ==
  InitComponent /\ [][NextComponent]_vars /\ WF_vars(Settle \/ Fail)


(***************************************************************************)
(* C30.  Every voice command the component handles eventually sets         *)
(* isProcessing back to false, whether the call succeeds or fails; when    *)
(* the call fails the fixed error message becomes the last response and    *)
(* onCommand is not invoked; when it succeeds the onCommand passed to the  *)
(* component is invoked exactly once, with the action and the data of the  *)
(* response.                                                               *)
(***************************************************************************)
CommandInFlight == vn.inFlight # <<>>

CommandHandled == vn.inFlight = <<>> /\ vn.settled # <<>>

HandledAsStated ==
  CommandHandled =>
    /\ ~vn.isProcessing
    /\ IF vn.settled[1].kind = "ok"
         THEN vn.onCommand =>
                /\ Len(vn.invoked) = 1
                /\ vn.invoked[1].action = vn.settled[1].action
                /\ vn.invoked[1].data = IF "data" \in DOMAIN vn.settled[1]
                                          THEN <<vn.settled[1].data>> ELSE <<>>
         ELSE /\ vn.lastResponse.of = "error"
              /\ vn.lastResponse.text = "Sorry, I could not process that command. Please try again."
              /\ vn.invoked = <<>>

C30_ProcessingEnds ==
  /\ []HandledAsStated
  /\ CommandInFlight ~> (CommandHandled /\ ~vn.isProcessing)

\* a command of the player context without a movieId: the endpoint raises
\* invalid_argument and the component shows the error message
C30_Witness ==
  /\ CommandHandled
  /\ vn.settled[1] = [kind |-> "error", code |-> "invalid_argument"]
  /\ vn.lastResponse.of = "error"
  /\ vn.invoked = <<>>
  /\ ~vn.isProcessing

\* "search for Free Solo" in the search context: onCommand has been invoked
\* once, with action search and the query
C30_WitnessSuccess ==
  /\ CommandHandled
  /\ vn.settled[1].kind = "ok"
  /\ vn.lastResponse.of = "response"
  /\ Len(vn.invoked) = 1
  /\ vn.invoked[1].action = "search"
  /\ vn.invoked[1].data[1].query = <<"f","r","e","e"," ","s","o","l","o">>
  /\ ~vn.isProcessing

\* a command is in flight and isProcessing is true
C30_WitnessInFlight ==
  /\ CommandInFlight
  /\ vn.isProcessing
  /\ ~vn.isListening

=============================================================================
